---- MODULE Spec2Model ----
(***************************************************************************)
(* A model of bombadil's runner loop (src/src/runner.rs), of the verifier  *)
(* step it drives (src/src/specification/verifier.rs), of the origin test  *)
(* (src/src/url.rs), of the weighted action tree                           *)
(* (src/src/browser/actions/tree.rs) and of the response header policy     *)
(* (src/src/browser/instrumentation.rs).                                   *)
(***************************************************************************)
EXTENDS Integers, Sequences, FiniteSets, TLC

VARIABLES
    \* ---- url.rs: the inputs and the result of one is_within_domain call
    uri,            \* the URL that is classified
    within,         \* None, or Some(b) for the b is_within_domain returned
    \* ---- runner.rs: Runner and the task Runner::start spawns
    origin,         \* Runner.origin
    options,        \* Runner.options: [stop_on_violation]
    pc,             \* position of the spawned task
    result,         \* what run() returned: "none", "Ok" or an error string
    last_action,    \* run_test's last_action: None or a BrowserAction
    cur,            \* the snapshot of the StateChanged handled last, or None
    ops,            \* the calls the handler made for cur, in order
    emitted,        \* the RunEvent::NewState sent for cur, or None
    applied,        \* the action handed to browser.apply for cur, or None
    shutdown,       \* whether RunEvents::shutdown has sent the signal
    terminated,     \* how often browser.terminate was called
    done,           \* the done channel: None, or Some(result) once sent
    \* ---- verifier.rs: Verifier
    properties,     \* Verifier.properties: name -> PropertyState
    step_result,    \* StepResult.properties of the last step: name -> Value
    evaluated,      \* the properties the last step ran the Evaluator on
    clock,          \* the time of the last snapshot
    n,              \* the number of snapshots stepped so far
    seen,           \* what the snapshot stream has shown so far (history)
    \* ---- verifier.rs: two Verifiers loaded with one specification
    verifiers,      \* <<>>, or the two: [order, properties, result_properties]
    \* ---- tree.rs: one tree, and the results of the calls made on it
    tree,           \* the Tree, or None when no tree is under test
    pick_result,    \* None, or Some(o) for the outcome o of tree.pick(rng)
    prune_result,   \* None, or Some(r) for the r tree.prune() returned
    reprune_result, \* None, or Some(r) for the r of pruning that r again
    \* ---- instrumentation.rs: one CSP value and the results of sanitize_csp
    csp_value,      \* None, or Some(v) for the CSP header value v under test
    sanitize_result,   \* None, or Some(r) for the r sanitize_csp returned
    resanitize_result, \* None, or Some(r) for sanitize_csp of that r's value
    \* ---- instrumentation.rs: one call of build_response_headers
    response_headers,  \* the argument: None or Some(list of HeaderEntry)
    resource_type,     \* the argument: "Script", "Document" or another type
    header_source_id,  \* the argument source_id: the number SourceId holds
    built_headers,     \* None, or Some(list) for the list that was returned
    \* ---- instrumentation.rs: the task instrument_js_coverage spawns
    listening,      \* whether the task is in its while-let loop
    taken,          \* how many EventRequestPaused the loop has taken
    paused,         \* the event taken last, or None
    commands,       \* the commands page.execute was given for it, in order
    logs,           \* the levels the loop logged at for it, in order
    intercept_result,  \* None, or Some(r) for the r intercept returned for it
    \* ---- keys.rs / actions.rs: one key code, key_info and PressKey of it
    key_code,       \* the u8 code under test
    key_info_result,   \* None, or Some(r) for the r key_info returned
    key_events,     \* the key events page.execute has dispatched, in order
    press_result,   \* None, or Some(r) for the r apply(PressKey) returned
    \* ---- verifier.rs: one call of Verifier::new
    specification_exports, \* the exports of the module, in iteration order
    loaded,         \* None, or Some(r) for what the walk of them returned
    \* ---- state.rs: the edge maps of the page and one BrowserState::current
    edges_current,  \* window.<NAMESPACE>.current: index -> u8 hit count
    edges_previous, \* window.<NAMESPACE>.previous: index -> bucket
    edges_new,      \* None, or Some(d) for the differences the read returned
    transition_hash,   \* None, or Some(h) for the hash the read returned
    \* ---- runner.rs: run_test's accumulator of coverage
    edges,          \* run_test's edges: index -> the greatest bucket so far
    reported,       \* index -> the buckets the deltas have reported (history)
    \* ---- instrumentation.rs: one intercepted response and its source id
    id_event,       \* the headers of the paused request and of its response
    id_body,        \* the decoded response body
    id_result,      \* None, or Some(id) for the SourceId intercept computed
    \* ---- js.rs: one JsAction and its conversion
    js_input,       \* the JsAction under test
    js_result       \* None, or Some(r) for the r to_browser_action returned

urlVars == <<uri, within>>
runnerVars == <<options, pc, result, last_action, cur, ops, emitted, applied,
                shutdown, terminated, done>>
verifierVars == <<properties, step_result, evaluated, clock, n, seen>>
treeVars == <<tree, pick_result, prune_result, reprune_result>>
cspVars == <<csp_value, sanitize_result, resanitize_result>>
headerVars == <<response_headers, resource_type, header_source_id,
                built_headers>>
pipelineVars == <<listening, taken, paused, commands, logs, intercept_result>>
keyVars == <<key_code, key_info_result, key_events, press_result>>
loadVars == <<specification_exports, loaded>>
coverageVars == <<edges_current, edges_previous, edges_new, transition_hash>>
edgeVars == <<edges, reported>>
idVars == <<id_event, id_body, id_result>>
jsVars == <<js_input, js_result>>
lateVars == <<coverageVars, edgeVars, idVars, jsVars>>
extVars == <<pipelineVars, keyVars, loadVars, lateVars>>
auxVars == <<verifiers, treeVars, cspVars, headerVars, extVars>>
vars == <<uri, within, origin, options, pc, result, last_action, cur, ops,
          emitted, applied, shutdown, terminated, done,
          properties, step_result, evaluated, clock, n, seen, auxVars>>

\* Rust's Option: None and Some(x).
None == [none |-> TRUE]
Some(x) == [some |-> x]
\* A panic of the running task.
Panic == [panic |-> TRUE]

(***************************************************************************)
(* Bounds of the model.                                                    *)
(***************************************************************************)
\* snapshots one verifier is stepped with
MaxSteps == 101
\* snapshots the runner handles in one run
MaxSnapshots == 3
\* the largest advance of the clock between two snapshots
MaxDelta == 2
\* the clock stops advancing here
MaxClock == 5
\* the branches of the root of a generated tree
MaxBranches == 2
\* the largest weight of a branch of a generated tree
MaxWeight == 2
\* the ';'-separated segments of a CSP value
MaxDirectives == 2
\* the entries of a list of response headers
MaxHeaders == 2
\* EDGE_MAP_SIZE, the length of the edge maps, is cut down to this.
EdgeMapSize == 2

(***************************************************************************)
(* url.rs                                                                  *)
(***************************************************************************)
\* What Url::host() and Url::port() return for a URL.  host is None for a
\* URL without authority (about:blank, data:, file:///x); port is None when
\* the URL names no port or the default port of its scheme.
Hosts == {"localhost", "other.example"}
Ports == {8080, 8081}
Urls == [host : {Some(h) : h \in Hosts} \cup {None},
         port : {Some(p) : p \in Ports} \cup {None}]

is_within_domain(u, domain) ==
    /\ (u.host = None \/ u.host = domain.host)
    /\ (u.port = None \/ u.port = domain.port)

(***************************************************************************)
(* tree.rs: Tree<T> = Leaf(T) | Branch(Vec<(Weight, Tree<T>)>)             *)
(***************************************************************************)
Leaf(x) == [leaf |-> x]
Branch(bs) == [branches |-> bs]
IsLeaf(t) == "leaf" \in DOMAIN t

RECURSIVE Leaves(_)
Leaves(t) ==
    IF IsLeaf(t) THEN {t.leaf}
    ELSE UNION {Leaves(t.branches[i][2]) : i \in DOMAIN t.branches}

\* prune_to_size leaves the tree pruned in place and returns its size; the
\* two results are modelled by Pruned (the tree left) and prune_to_size.
\* Size is what prune_to_size returns for a tree it has pruned already.
Size(t) == IF IsLeaf(t) THEN 1 ELSE Len(t.branches)

RECURSIVE Pruned(_)

\* The walk of a loop that advances i after a removal as well: the element
\* that moved into the place of a removed one is passed over.
RECURSIVE RemoveAndSkip(_)
RemoveAndSkip(kids) ==
    IF kids = <<>> THEN <<>>
    ELSE IF Size(kids[1][2]) = 0
         THEN IF Len(kids) >= 2
              THEN <<kids[2]>> \o RemoveAndSkip(SubSeq(kids, 3, Len(kids)))
              ELSE <<>>
         ELSE <<kids[1]>> \o RemoveAndSkip(Tail(kids))

Pruned_skipping(t) ==
    IF IsLeaf(t) THEN t
    ELSE LET kids == [i \in DOMAIN t.branches |->
                        <<t.branches[i][1], Pruned(t.branches[i][2])>>]
         IN  Branch(RemoveAndSkip(kids))

Pruned(t) ==
    IF IsLeaf(t) THEN t
    ELSE LET kids == [i \in DOMAIN t.branches |->
                        <<t.branches[i][1], Pruned(t.branches[i][2])>>]
             keep(b) == Size(b[2]) # 0
         IN  Branch(SelectSeq(kids, keep))

prune_to_size(t) == Size(Pruned(t))

\* A prune that hands back the tree whatever its size.
prune_always_some(t) == Pruned(t)

prune(t) == IF prune_to_size(t) = 0 THEN None ELSE Pruned(t)

\* The number of values of Weight = u16.
U16Values == 65536

\* The sum of the weights as a number, without the width of u16.
RECURSIVE SumWeights(_)
SumWeights(bs) ==
    IF bs = <<>> THEN 0 ELSE bs[1][1] + SumWeights(Tail(bs))

\* The child the cumulative walk of pick stops at for a drawn target;
\* current is a u16 and, where the build lets it, wraps.
RECURSIVE Chosen(_, _, _)
Chosen(bs, target, current) ==
    IF bs = <<>> THEN None
    ELSE IF target < (current + bs[1][1]) % U16Values THEN bs[1][2]
    ELSE Chosen(Tail(bs), target, (current + bs[1][1]) % U16Values)

\* Every outcome pick can have over the draws of the RNG and the builds:
\* Some(x), None, or Panic.  weight_total is a u16: a sum above 65535
\* panics in a build with overflow checks and wraps in one without;
\* random_range panics on the empty range 0..0.
RECURSIVE pick(_)
pick(t) ==
    IF IsLeaf(t) THEN {Some(t.leaf)}
    ELSE LET exact == SumWeights(t.branches)
             weight_total == exact % U16Values
             drawn ==
                 IF weight_total = 0 THEN {Panic}
                 ELSE UNION {
                        LET c == Chosen(t.branches, target, 0)
                        IN  IF c = None THEN {None} ELSE pick(c)
                        : target \in 0 .. (weight_total - 1)}
         IN  IF exact >= U16Values THEN drawn \cup {Panic} ELSE drawn

\* Tree::filter keeps the leaves that satisfy the predicate (here: membership
\* in keep) and empties the others; branches keep their weights.
RECURSIVE filter(_, _)
filter(t, keep) ==
    IF IsLeaf(t)
    THEN IF t.leaf \in keep THEN t ELSE Branch(<<>>)
    ELSE Branch([i \in DOMAIN t.branches |->
                    <<t.branches[i][1], filter(t.branches[i][2], keep)>>])

(***************************************************************************)
(* ltl: formulas, values and the one-step Evaluator                        *)
(***************************************************************************)
\* The bound of the .within(3, "milliseconds") properties.
BoundMillis == 3

\* The extractor snapshots of one state: the values foo.current and
\* bar.current that the thunks of the properties read.
Snapshots == [foo : BOOLEAN, bar : BOOLEAN]

\* Formula::Next over a thunk () => <extractor>.current.
Next_(thunk) == [op |-> "Next", thunk |-> thunk]

\* Formula::Always / Eventually over a thunk () => <extractor>.current, with
\* an optional bound.
Always(thunk, bound) == [op |-> "Always", thunk |-> thunk, bound |-> bound]
Eventually(thunk, bound) ==
    [op |-> "Eventually", thunk |-> thunk, bound |-> bound]

\* ltl::Value
True == [tag |-> "True"]
False(violation) == [tag |-> "False", violation |-> violation]
Residual(residual) == [tag |-> "Residual", residual |-> residual]

\* A thunk whose value is taken negated.
evaluate_thunk_negated(thunk, snapshot) == ~snapshot[thunk]

\* The thunk is called and its value read as a Pure formula.
evaluate_thunk(thunk, snapshot) == snapshot[thunk]

evaluate_always(thunk, start, end, snapshot, time) ==
    IF end # None /\ end.some < time THEN True
    ELSE IF evaluate_thunk(thunk, snapshot)
         THEN Residual([kind |-> "Always", thunk |-> thunk,
                        start |-> start, end |-> end])
         ELSE False([kind |-> "Always", subformula |-> thunk,
                     start |-> start, time |-> time,
                     violation |-> [kind |-> "False", thunk |-> thunk,
                                    time |-> time]])

evaluate_eventually(thunk, start, end, snapshot, time) ==
    IF end # None /\ end.some < time
    THEN False([kind |-> "Eventually", subformula |-> thunk,
                start |-> start, time |-> time])
    ELSE IF evaluate_thunk(thunk, snapshot) THEN True
         ELSE Residual([kind |-> "Eventually", thunk |-> thunk,
                        start |-> start, end |-> end])

\* Next(phi): phi is deferred to the following state, unevaluated.
evaluate_next(thunk, time) ==
    Residual([kind |-> "Next", thunk |-> thunk, start |-> time])

\* The deferred phi of a Next, evaluated in the state that followed.
step_next(thunk, snapshot, time) ==
    IF evaluate_thunk(thunk, snapshot) THEN True
    ELSE False([kind |-> "False", thunk |-> thunk, time |-> time])

\* Evaluator::evaluate: a formula met for the first time at `time`.
evaluate(formula, snapshot, time) ==
    IF formula.op = "Next" THEN evaluate_next(formula.thunk, time)
    ELSE
    LET end == IF formula.bound = None THEN None
               ELSE Some(time + formula.bound.some)
    IN  IF formula.op = "Always"
        THEN evaluate_always(formula.thunk, time, end, snapshot, time)
        ELSE evaluate_eventually(formula.thunk, time, end, snapshot, time)

\* Evaluator::step: a residual carried over from an earlier state.
step(residual, snapshot, time) ==
    IF residual.kind = "Next"
    THEN step_next(residual.thunk, snapshot, time)
    ELSE
    IF residual.kind = "Always"
    THEN evaluate_always(residual.thunk, residual.start, residual.end,
                         snapshot, time)
    ELSE evaluate_eventually(residual.thunk, residual.start, residual.end,
                             snapshot, time)

(***************************************************************************)
(* verifier.rs: Verifier::step                                             *)
(***************************************************************************)
\* PropertyState
Initial(formula) == [tag |-> "Initial", formula |-> formula]
ResidualState(residual) == [tag |-> "Residual", residual |-> residual]
DefinitelyTrue == [tag |-> "DefinitelyTrue"]
DefinitelyFalse(violation) == [tag |-> "DefinitelyFalse", violation |-> violation]

\* The properties a specification can export.
Formulas ==
    [ always           |-> Always("foo", None),
      always_bounded   |-> Always("foo", Some(BoundMillis)),
      eventually       |-> Eventually("bar", None),
      eventually_bounded |-> Eventually("bar", Some(BoundMillis)),
      next             |-> Next_("foo") ]

\* The properties of the always / eventually tests, and of the next test.
AlwaysEventually ==
    {"always", "always_bounded", "eventually", "eventually_bounded"}

\* Verifier::new: every exported formula starts as Initial.
NewProperties(names) == [p \in names |-> Initial(Formulas[p])]

\* A step that builds the witness of a decided property anew.
property_step_fresh_witness(state, snapshot, time) ==
    CASE state.tag = "Initial" ->
            [value |-> evaluate(state.formula, snapshot, time), ran |-> TRUE]
      [] state.tag = "Residual" ->
            [value |-> step(state.residual, snapshot, time), ran |-> TRUE]
      [] state.tag = "DefinitelyTrue" -> [value |-> True, ran |-> FALSE]
      [] state.tag = "DefinitelyFalse" ->
            [value |-> False([state.violation EXCEPT !.time = time]),
             ran |-> FALSE]

\* A step that carries a residual over without stepping it.
property_step_residual_kept(state, snapshot, time) ==
    CASE state.tag = "Initial" ->
            [value |-> evaluate(state.formula, snapshot, time), ran |-> TRUE]
      [] state.tag = "Residual" ->
            [value |-> Residual(state.residual), ran |-> FALSE]
      [] state.tag = "DefinitelyTrue" -> [value |-> True, ran |-> FALSE]
      [] state.tag = "DefinitelyFalse" ->
            [value |-> False(state.violation), ran |-> FALSE]

\* One property in one step (the first match of the loop): the value it
\* yields, and whether the Evaluator ran for it.
property_step(state, snapshot, time) ==
    CASE state.tag = "Initial" ->
            [value |-> evaluate(state.formula, snapshot, time), ran |-> TRUE]
      [] state.tag = "Residual" ->
            [value |-> step(state.residual, snapshot, time), ran |-> TRUE]
      [] state.tag = "DefinitelyTrue" -> [value |-> True, ran |-> FALSE]
      [] state.tag = "DefinitelyFalse" ->
            [value |-> False(state.violation), ran |-> FALSE]

\* The state a value leaves the property in (the second match of the loop).
property_state(value) ==
    CASE value.tag = "True" -> DefinitelyTrue
      [] value.tag = "False" -> DefinitelyFalse(value.violation)
      [] value.tag = "Residual" -> ResidualState(value.residual)

\* A step that hands the Evaluator the epoch instead of the snapshot's time.
StepValues_epoch(props, snapshot, time) ==
    [p \in DOMAIN props |-> property_step(props[p], snapshot, 0).value]

\* StepResult.properties of a step over the properties props.
StepValues(props, snapshot, time) ==
    [p \in DOMAIN props |-> property_step(props[p], snapshot, time).value]

\* Verifier.properties after that step.
StepStates(props, snapshot, time) ==
    [p \in DOMAIN props |-> property_state(StepValues(props, snapshot, time)[p])]

\* The properties the step ran the Evaluator for.
StepEvaluated(props, snapshot, time) ==
    {p \in DOMAIN props : property_step(props[p], snapshot, time).ran}

(***************************************************************************)
(* The history of a snapshot stream, kept to state what the verifier must  *)
(* answer: it is computed from the inputs alone, never from the verifier.  *)
(***************************************************************************)
NoHistory ==
    [ snapshot |-> None,          \* the snapshot of the last step
      t0 |-> None,                \* the time of the first step
      late |-> None,              \* the time of the first step after t0 + bound
      foo_false_before |-> FALSE, \* foo was false at a step before the last
      foo_false_within |-> FALSE, \* ... at one that was not after t0 + bound
      bar_true_before |-> FALSE,  \* bar was true at a step before the last
      bar_true_ever |-> FALSE ]   \* bar was true at some step, the last included

SeenAfter(h, snapshot, time) ==
    LET t0 == IF h.t0 = None THEN time ELSE h.t0.some
        last == h.snapshot
    IN  [ snapshot |-> Some(snapshot),
          t0 |-> Some(t0),
          late |-> IF h.late = None /\ time > t0 + BoundMillis
                   THEN Some(time) ELSE h.late,
          foo_false_before |->
              h.foo_false_before \/ (last # None /\ ~last.some.foo),
          foo_false_within |->
              h.foo_false_within
                \/ (last # None /\ ~last.some.foo /\ clock <= t0 + BoundMillis),
          bar_true_before |->
              h.bar_true_before \/ (last # None /\ last.some.bar),
          bar_true_ever |-> h.bar_true_ever \/ snapshot.bar ]

(***************************************************************************)
(* The idle values of the parts a specification does not exercise.         *)
(***************************************************************************)
TestOrigin == [host |-> Some("localhost"), port |-> Some(8080)]

IdleUrl == uri = TestOrigin /\ within = None

IdleRunner ==
    /\ options = [stop_on_violation |-> FALSE]
    /\ pc = "idle"
    /\ result = "none"
    /\ last_action = None
    /\ cur = None
    /\ ops = <<>>
    /\ emitted = None
    /\ applied = None
    /\ shutdown = FALSE
    /\ terminated = 0
    /\ done = None

IdleTwin == verifiers = <<>>

IdleTree ==
    /\ tree = None
    /\ pick_result = None
    /\ prune_result = None
    /\ reprune_result = None

IdleCsp ==
    /\ csp_value = None
    /\ sanitize_result = None
    /\ resanitize_result = None

IdleHeaders ==
    /\ response_headers = None
    /\ resource_type = "Other"
    /\ header_source_id = 0
    /\ built_headers = None

IdlePipeline ==
    /\ listening = FALSE
    /\ taken = 0
    /\ paused = None
    /\ commands = <<>>
    /\ logs = <<>>
    /\ intercept_result = None

IdleKeys ==
    /\ key_code = 0
    /\ key_info_result = None
    /\ key_events = <<>>
    /\ press_result = None

IdleLoad ==
    /\ specification_exports = <<>>
    /\ loaded = None

EdgeIndices == 0 .. (EdgeMapSize - 1)

\* new Uint8Array(EDGE_MAP_SIZE), and [0u8; EDGE_MAP_SIZE]
ZeroedMap == [i \in EdgeIndices |-> 0]

IdleCoverage ==
    /\ edges_current = ZeroedMap
    /\ edges_previous = ZeroedMap
    /\ edges_new = None
    /\ transition_hash = None

IdleEdges ==
    /\ edges = ZeroedMap
    /\ reported = [i \in EdgeIndices |-> {}]

IdleId ==
    /\ id_event = None
    /\ id_body = ""
    /\ id_result = None

IdleJs ==
    /\ js_input = None
    /\ js_result = None

IdleLate == IdleCoverage /\ IdleEdges /\ IdleId /\ IdleJs

IdleExt == IdlePipeline /\ IdleKeys /\ IdleLoad /\ IdleLate

IdleAux == IdleTwin /\ IdleTree /\ IdleCsp /\ IdleHeaders /\ IdleExt

IdleVerifier ==
    /\ properties = NewProperties({})
    /\ step_result = NewProperties({})
    /\ evaluated = {}
    /\ clock = 0
    /\ n = 0
    /\ seen = NoHistory

(***************************************************************************)
(* SpecUrl: is_within_domain over every pair of URLs.                      *)
(***************************************************************************)
InitUrl ==
    /\ uri \in Urls
    /\ origin \in Urls
    /\ within = None
    /\ IdleRunner
    /\ IdleVerifier
    /\ IdleAux

CheckDomain ==
    /\ within = None
    /\ within' = Some(is_within_domain(uri, origin))
    /\ UNCHANGED <<auxVars, uri, origin, runnerVars, verifierVars>>

SpecUrl == InitUrl /\ [][CheckDomain]_vars

(***************************************************************************)
(* SpecVerifier: one Verifier stepped with a stream of snapshots, as the   *)
(* unit tests of verifier.rs do.                                           *)
(***************************************************************************)
InitVerifier ==
    /\ properties = NewProperties(AlwaysEventually)
    /\ step_result = NewProperties({})
    /\ evaluated = {}
    /\ clock = 0
    /\ n = 0
    /\ seen = NoHistory
    /\ origin = TestOrigin
    /\ IdleUrl
    /\ IdleRunner
    /\ IdleAux

\* The times the next snapshot can carry: time does not run backwards.
NextTimes == {t \in clock .. (clock + MaxDelta) : t <= MaxClock}

VerifierStep ==
    /\ n < MaxSteps
    /\ \E snapshot \in Snapshots, time \in NextTimes :
          /\ properties' = StepStates(properties, snapshot, time)
          /\ step_result' = StepValues(properties, snapshot, time)
          /\ evaluated' = StepEvaluated(properties, snapshot, time)
          /\ clock' = time
          /\ n' = n + 1
          /\ seen' = SeenAfter(seen, snapshot, time)
    /\ UNCHANGED <<auxVars, urlVars, origin, runnerVars>>

SpecVerifier == InitVerifier /\ [][VerifierStep]_vars

(***************************************************************************)
(* SpecNext: a Verifier whose one property is next(() => foo.current).     *)
(***************************************************************************)
InitNext ==
    /\ properties = NewProperties({"next"})
    /\ step_result = NewProperties({})
    /\ evaluated = {}
    /\ clock = 0
    /\ n = 0
    /\ seen = NoHistory
    /\ origin = TestOrigin
    /\ IdleUrl
    /\ IdleRunner
    /\ IdleAux

SpecNext == InitNext /\ [][VerifierStep]_vars

(***************************************************************************)
(* SpecTwin: two Verifiers loaded with the same specification and stepped  *)
(* with the same stream of snapshots and times.  Verifier.properties is a  *)
(* HashMap: each Verifier iterates it in an order of its own, which stays  *)
(* the same from step to step as the map is never inserted into again.     *)
(***************************************************************************)
TwinProperties == <<"always", "eventually_bounded">>

Range(seq) == {seq[i] : i \in DOMAIN seq}

\* The orders in which a HashMap with these keys can be iterated.
IterationOrders(names) ==
    {o \in [1 .. Cardinality(names) -> names] : Range(o) = names}

\* A loop that takes the names from the map's iteration and the values from
\* a walk over the properties in the order of their export.
StepLoop_misaligned(order, props, snapshot, time) ==
    [i \in DOMAIN order |->
        <<order[i],
          property_step(props[TwinProperties[i]], snapshot, time).value>>]

\* The property loop of Verifier::step over self.properties.values_mut():
\* result_properties, pushed in the iteration's order.
StepLoop(order, props, snapshot, time) ==
    [i \in DOMAIN order |->
        <<order[i], property_step(props[order[i]], snapshot, time).value>>]

\* The value result_properties holds for the property named p.
ValueOf(result_properties, p) ==
    result_properties[CHOOSE i \in DOMAIN result_properties :
                          result_properties[i][1] = p][2]

\* Verifier.properties after the loop that pushed result_properties.
StatesAfter(result_properties) ==
    [p \in {result_properties[i][1] : i \in DOMAIN result_properties} |->
        property_state(ValueOf(result_properties, p))]

NewVerifier(order) ==
    [ order |-> order,
      properties |-> NewProperties(Range(order)),
      result_properties |-> <<>> ]

InitTwin ==
    /\ verifiers \in
          {<<NewVerifier(o1), NewVerifier(o2)>> :
              o1 \in IterationOrders(Range(TwinProperties)),
              o2 \in IterationOrders(Range(TwinProperties))}
    /\ origin = TestOrigin
    /\ IdleUrl
    /\ IdleRunner
    /\ IdleVerifier
    /\ IdleTree
    /\ IdleCsp
    /\ IdleExt
    /\ IdleHeaders

\* Both verifiers are stepped with the same snapshot and the same time.
TwinStep ==
    /\ n < MaxSteps
    /\ \E snapshot \in Snapshots, time \in NextTimes :
          /\ verifiers' =
                [k \in DOMAIN verifiers |->
                    LET v == verifiers[k]
                        pushed == StepLoop(v.order, v.properties,
                                           snapshot, time)
                    IN  [ order |-> v.order,
                          properties |-> StatesAfter(pushed),
                          result_properties |-> pushed ]]
          /\ clock' = time
          /\ n' = n + 1
    /\ UNCHANGED <<urlVars, origin, runnerVars, properties, step_result,
                   evaluated, seen, treeVars, cspVars, headerVars,
                   extVars>>

SpecTwin == InitTwin /\ [][TwinStep]_vars

(***************************************************************************)
(* SpecTree: pick and prune applied to one tree, as the unit tests of      *)
(* tree.rs do.                                                             *)
(***************************************************************************)
\* The tree of test_pick_any.
TestPickTree ==
    Branch(<< <<1, Leaf(1)>>,
              <<1, Branch(<< <<2, Leaf(2)>>, <<3, Leaf(3)>> >>)>> >>)

\* The tree of test_prune_non_empty, and the tree the test expects.
TestPruneTree ==
    Branch(<< <<1, Leaf(1)>>,
              <<2, Branch(<< <<2, Leaf(2)>>, <<3, Leaf(3)>>,
                             <<4, Branch(<<>>)>> >>)>>,
              <<1, Branch(<<>>)>> >>)
TestPruneExpected ==
    Branch(<< <<1, Leaf(1)>>,
              <<2, Branch(<< <<2, Leaf(2)>>, <<3, Leaf(3)>> >>)>> >>)

Weights == 0 .. MaxWeight

\* The trees below the root of a generated tree.
Subtrees ==
    { Leaf(1), Leaf(2), Branch(<<>>),
      Branch(<< <<1, Leaf(3)>> >>),
      Branch(<< <<0, Leaf(3)>> >>),
      Branch(<< <<1, Branch(<<>>)>> >>),
      Branch(<< <<1, Branch(<<>>)>>, <<1, Branch(<<>>)>>, <<2, Leaf(3)>> >>) }

Trees ==
    Subtrees \cup {TestPickTree, TestPruneTree}
      \cup {Branch(bs) :
              bs \in UNION {[1 .. k -> Weights \X Subtrees] :
                              k \in 0 .. MaxBranches}}

InitTree ==
    /\ tree \in Trees
    /\ pick_result = None
    /\ prune_result = None
    /\ reprune_result = None
    /\ origin = TestOrigin
    /\ IdleUrl
    /\ IdleRunner
    /\ IdleVerifier
    /\ IdleTwin
    /\ IdleCsp
    /\ IdleExt
    /\ IdleHeaders

\* tree.pick(&mut rng), over every draw of the RNG.
Pick ==
    /\ tree # None
    /\ pick_result = None
    /\ \E outcome \in pick(tree) : pick_result' = Some(outcome)
    /\ UNCHANGED <<tree, prune_result, reprune_result>>
    /\ UNCHANGED <<urlVars, origin, runnerVars, verifierVars, verifiers,
                   cspVars, headerVars,
                   extVars>>

\* tree.clone().prune()
Prune ==
    /\ tree # None
    /\ prune_result = None
    /\ prune_result' = Some(prune(tree))
    /\ UNCHANGED <<tree, pick_result, reprune_result>>
    /\ UNCHANGED <<urlVars, origin, runnerVars, verifierVars, verifiers,
                   cspVars, headerVars,
                   extVars>>

\* The result of prune pruned again: and_then(Tree::prune).
PruneAgain ==
    /\ prune_result # None
    /\ reprune_result = None
    /\ reprune_result' =
          Some(IF prune_result.some = None THEN None
               ELSE prune(prune_result.some))
    /\ UNCHANGED <<tree, pick_result, prune_result>>
    /\ UNCHANGED <<urlVars, origin, runnerVars, verifierVars, verifiers,
                   cspVars, headerVars,
                   extVars>>

SpecTree == InitTree /\ [][Pick \/ Prune \/ PruneAgain]_vars

\* Weights at and near the ends of u16.
WideWeights == {0, 1, 2, 32767, 32768, 65534, 65535}

\* Branches of two leaves with such weights.
WideTrees ==
    { Branch(<<<<first, Leaf("a")>>, <<second, Leaf("b")>>>>) :
        first \in WideWeights, second \in WideWeights }

InitPickWide ==
    /\ tree \in WideTrees
    /\ pick_result = None
    /\ prune_result = None
    /\ reprune_result = None
    /\ origin = TestOrigin
    /\ IdleUrl
    /\ IdleRunner
    /\ IdleVerifier
    /\ IdleTwin
    /\ IdleCsp
    /\ IdleExt
    /\ IdleHeaders

SpecPickWide == InitPickWide /\ [][Pick]_vars

(***************************************************************************)
(* instrumentation.rs: sanitize_csp                                        *)
(*                                                                         *)
(* A CSP value is the sequence of its ';'-separated segments, trimmed.  A  *)
(* segment is [name, sep, values]: the directive name as written, the      *)
(* white space that separates the name and the values ("none" for a        *)
(* directive without values, else "single" for one space, "double" for two *)
(* spaces, "tab" for a tab), and the values in order.  An empty segment    *)
(* (";;", or a trailing ";") has the name "".                              *)
(***************************************************************************)
Directive(name, sep, values) ==
    [name |-> name, sep |-> sep, values |-> values]

EmptySegment == Directive("", "none", <<>>)

\* str::to_lowercase on the names and the sources the model writes.
to_lowercase(text) ==
    CASE text = "Script-Src" -> "script-src"
      [] text = "SCRIPT-SRC-ELEM" -> "script-src-elem"
      [] text = "Report-URI" -> "report-uri"
      [] text = "'Nonce-ABC'" -> "'nonce-ABC'"
      [] OTHER -> text

\* lv.starts_with("'sha256-") || ... || lv == "'strict-dynamic'"
is_stripped_source(v) ==
    to_lowercase(v) \in {"'sha256-abc'", "'sha384-abc'", "'sha512-abc'",
                         "'nonce-abc'", "'nonce-ABC'", "'strict-dynamic'"}

\* lower.starts_with("<name> ") || lower == "<name>": the name is followed
\* by a space or by nothing.
starts_with_name(d, names) ==
    /\ to_lowercase(d.name) \in names
    /\ d.sep \in {"none", "single", "double"}

is_script_src(d) == starts_with_name(d, {"script-src", "script-src-elem"})

\* directive_name: the text before the first white space of any kind.
is_report(d) == to_lowercase(d.name) \in {"report-uri", "report-to"}

\* csp_value.split(';').map(str::trim).filter(|d| !d.is_empty())
directives_of(value) ==
    LET non_empty(d) == d # EmptySegment IN SelectSeq(value, non_empty)

has_script_src(directives) ==
    \E i \in DOMAIN directives : is_script_src(directives[i])

is_default_src_fallback(d, has) ==
    ~has /\ starts_with_name(d, {"default-src"})

filtered_values(values) ==
    LET kept(v) == ~is_stripped_source(v) IN SelectSeq(values, kept)

\* A body of the loop that pushes a processed directive left without values.
sanitize_directive_pushes_empty(d, has) ==
    IF is_report(d) THEN <<>>
    ELSE IF is_script_src(d) \/ is_default_src_fallback(d, has)
    THEN LET filtered == filtered_values(d.values)
         IN  <<Directive(d.name, IF filtered = <<>> THEN "none" ELSE "single",
                         filtered)>>
    ELSE <<d>>

\* A body of the loop that writes a processed directive under its
\* lower-cased name.
sanitize_directive_lowercases(d, has) ==
    IF is_report(d) THEN <<>>
    ELSE IF is_script_src(d) \/ is_default_src_fallback(d, has)
    THEN LET filtered == filtered_values(d.values)
         IN  IF filtered # <<>>
             THEN <<Directive(to_lowercase(d.name), "single", filtered)>>
             ELSE <<>>
    ELSE <<d>>

\* The body of the loop over the directives: what it pushes onto result.
sanitize_directive(d, has) ==
    IF is_report(d) THEN <<>>
    ELSE IF is_script_src(d) \/ is_default_src_fallback(d, has)
    THEN LET filtered == filtered_values(d.values)
         IN  IF filtered # <<>>
             THEN <<Directive(d.name, "single", filtered)>>
             ELSE <<>>
    ELSE <<d>>

RECURSIVE sanitize_all(_, _)
sanitize_all(directives, has) ==
    IF directives = <<>> THEN <<>>
    ELSE sanitize_directive(Head(directives), has)
           \o sanitize_all(Tail(directives), has)

\* sanitize_csp: None, or Some of the directives joined by "; ".
sanitize_csp(value) ==
    LET directives == directives_of(value)
        joined == sanitize_all(directives, has_script_src(directives))
    IN  IF joined = <<>> THEN None ELSE Some(joined)

(***************************************************************************)
(* SpecCsp: sanitize_csp applied to a CSP value, and to its own result.    *)
(***************************************************************************)
CspDirectives ==
    { Directive("script-src", "single", <<"'sha256-abc'", "'self'">>),
      Directive("script-src", "single", <<"'unsafe-inline'">>),
      Directive("script-src", "single", <<"'nonce-abc'", "'strict-dynamic'">>),
      Directive("script-src", "double", <<"'strict-dynamic'", "https:">>),
      Directive("script-src", "tab", <<"'nonce-abc'", "'self'">>),
      Directive("script-src", "none", <<>>),
      Directive("Script-Src", "single", <<"'self'", "'Nonce-ABC'">>),
      Directive("SCRIPT-SRC-ELEM", "single", <<"'sha384-abc'", "https:">>),
      Directive("SCRIPT-SRC-ELEM", "double", <<"https:">>),
      Directive("default-src", "single", <<"'sha256-abc'", "'self'">>),
      Directive("default-src", "single", <<"'sha512-abc'">>),
      Directive("default-src", "double", <<"'none'">>),
      Directive("img-src", "double", <<"'self'", "https:">>),
      Directive("style-src", "single", <<"'nonce-abc'">>),
      Directive("upgrade-insecure-requests", "none", <<>>),
      Directive("report-uri", "single", <<"/csp">>),
      Directive("Report-URI", "tab", <<"/csp">>),
      Directive("report-to", "single", <<"csp-endpoint">>),
      EmptySegment }

CspValues ==
    UNION {[1 .. k -> CspDirectives] : k \in 0 .. MaxDirectives}

InitCsp ==
    /\ csp_value \in {Some(value) : value \in CspValues}
    /\ sanitize_result = None
    /\ resanitize_result = None
    /\ origin = TestOrigin
    /\ IdleUrl
    /\ IdleRunner
    /\ IdleVerifier
    /\ IdleTwin
    /\ IdleTree
    /\ IdleHeaders
    /\ IdleExt

Sanitize ==
    /\ csp_value # None
    /\ sanitize_result = None
    /\ sanitize_result' = Some(sanitize_csp(csp_value.some))
    /\ UNCHANGED <<csp_value, resanitize_result>>
    /\ UNCHANGED <<urlVars, origin, runnerVars, verifierVars, verifiers,
                   treeVars, headerVars, extVars>>

\* sanitize_csp applied to the string an earlier call returned.
SanitizeAgain ==
    /\ sanitize_result # None
    /\ sanitize_result.some # None
    /\ resanitize_result = None
    /\ resanitize_result' = Some(sanitize_csp(sanitize_result.some.some))
    /\ UNCHANGED <<csp_value, sanitize_result>>
    /\ UNCHANGED <<urlVars, origin, runnerVars, verifierVars, verifiers,
                   treeVars, headerVars, extVars>>

SpecCsp == InitCsp /\ [][Sanitize \/ SanitizeAgain]_vars

(***************************************************************************)
(* instrumentation.rs: build_response_headers                              *)
(*                                                                         *)
(* A HeaderEntry is [name, value]; a value is Text(s) for a string the     *)
(* model does not look into, Csp(v) for a CSP value, or Decimal(n) for the *)
(* decimal digits format!("{}", n) writes.                                 *)
(***************************************************************************)
HeaderEntry(name, value) == [name |-> name, value |-> value]
Text(string) == [text |-> string]
Csp(value) == [csp |-> value]

RECURSIVE Digits(_)
Digits(number) ==
    IF number < 10 THEN <<number>>
    ELSE Digits(number \div 10) \o <<number % 10>>

Decimal(number) == [decimal |-> Digits(number)]

STRIPPED_RESPONSE_HEADERS ==
    {"etag", "content-length", "content-encoding", "transfer-encoding",
     "digest"}

\* u8::to_ascii_lowercase over the header names the model writes.
to_ascii_lowercase(name) ==
    CASE name = "ETag" -> "etag"
      [] name = "Content-Length" -> "content-length"
      [] name = "Transfer-Encoding" -> "transfer-encoding"
      [] name = "DIGEST" -> "digest"
      [] name = "Content-Security-Policy" -> "content-security-policy"
      [] name = "Content-Type" -> "content-type"
      [] OTHER -> name

eq_ignore_ascii_case(a, b) == to_ascii_lowercase(a) = to_ascii_lowercase(b)

\* A filter that compares the names as they are written.
is_stripped_header_exact(h) == h.name \in STRIPPED_RESPONSE_HEADERS

\* The filter closure, negated: the header is one of the stripped ones.
is_stripped_header(h) ==
    \E name \in STRIPPED_RESPONSE_HEADERS : eq_ignore_ascii_case(h.name, name)

is_csp(h) ==
    \/ eq_ignore_ascii_case(h.name, "content-security-policy")
    \/ eq_ignore_ascii_case(h.name, "content-security-policy-report-only")

\* A closure that looks at the resource type before it looks at the header.
routed_header_type_first(h, type) ==
    CASE type = "Script" -> <<>>
      [] type = "Document" ->
           IF is_csp(h)
           THEN LET v == sanitize_csp(h.value.csp)
                IN  IF v = None THEN <<>>
                    ELSE <<HeaderEntry(h.name, Csp(v.some))>>
           ELSE <<h>>
      [] OTHER -> <<h>>

\* A closure that forwards every header it is given.
routed_header_forwards_csp(h, type) == <<h>>

\* The flat_map closure: the entries one kept header contributes.
routed_header(h, type) ==
    IF is_csp(h)
    THEN CASE type = "Script" -> <<>>
           [] type = "Document" ->
                LET v == sanitize_csp(h.value.csp)
                IN  IF v = None THEN <<>>
                    ELSE <<HeaderEntry(h.name, Csp(v.some))>>
           [] OTHER -> <<h>>
    ELSE <<h>>

RECURSIVE routed_headers(_, _)
routed_headers(headers, type) ==
    IF headers = <<>> THEN <<>>
    ELSE routed_header(Head(headers), type)
           \o routed_headers(Tail(headers), type)

build_response_headers(headers, type, source_id) ==
    LET given == IF headers = None THEN <<>> ELSE headers.some
        kept(h) == ~is_stripped_header(h)
    IN  routed_headers(SelectSeq(given, kept), type)
          \o <<HeaderEntry("etag", Decimal(source_id))>>

(***************************************************************************)
(* SpecHeaders: build_response_headers over lists of response headers.     *)
(***************************************************************************)
HeaderCspValues ==
    { <<Directive("script-src", "single", <<"'sha256-abc'", "'self'">>),
        Directive("img-src", "double", <<"'self'", "https:">>)>>,
      <<Directive("script-src", "single",
                  <<"'nonce-abc'", "'strict-dynamic'">>)>> }

HeaderEntries ==
    { HeaderEntry("etag", Text("upstream")),
      HeaderEntry("ETag", Text("W/upstream")),
      HeaderEntry("content-length", Text("1234")),
      HeaderEntry("Content-Length", Text("1234")),
      HeaderEntry("content-encoding", Text("gzip")),
      HeaderEntry("Transfer-Encoding", Text("chunked")),
      HeaderEntry("DIGEST", Text("sha-256=abc")),
      HeaderEntry("content-type", Text("text/javascript")),
      HeaderEntry("x-etag", Text("upstream")) }
      \cup {HeaderEntry(name, Csp(v)) :
              name \in {"Content-Security-Policy",
                        "content-security-policy-report-only"},
              v \in HeaderCspValues}

ResourceTypes == {"Script", "Document", "Stylesheet"}
SourceIds == {0, 7, 1905}

InitHeaders ==
    /\ response_headers \in
          {None} \cup {Some(hs) : hs \in UNION {[1 .. k -> HeaderEntries] :
                                                   k \in 0 .. MaxHeaders}}
    /\ resource_type \in ResourceTypes
    /\ header_source_id \in SourceIds
    /\ built_headers = None
    /\ origin = TestOrigin
    /\ IdleUrl
    /\ IdleRunner
    /\ IdleVerifier
    /\ IdleTwin
    /\ IdleTree
    /\ IdleCsp
    /\ IdleExt

BuildResponseHeaders ==
    /\ built_headers = None
    /\ built_headers' =
          Some(build_response_headers(response_headers, resource_type,
                                      header_source_id))
    /\ UNCHANGED <<response_headers, resource_type, header_source_id>>
    /\ UNCHANGED <<urlVars, origin, runnerVars, verifierVars, verifiers,
                   treeVars, cspVars, extVars>>

SpecHeaders == InitHeaders /\ [][BuildResponseHeaders]_vars

(***************************************************************************)
(* js.rs / actions.rs: the actions of a specification                      *)
(***************************************************************************)
Back == [type |-> "Back"]
Click == [type |-> "Click"]
Reload == [type |-> "Reload"]
\* BrowserAction::PressKey { code: u8 }
PressKey(code) == [type |-> "PressKey", code |-> code]
\* BrowserAction::TypeText { text, delay_millis: u64 }
TypeText(text, delay_millis) ==
    [type |-> "TypeText", text |-> text, delay_millis |-> delay_millis]

\* An f64: NaN, an infinity, or the finite number halves / 2.
Finite(halves) == [halves |-> halves]
NaN == [nan |-> TRUE]
Infinity(sign) == [inf |-> sign]
is_finite(x) == "halves" \in DOMAIN x
\* x.fract() != 0.0, for a finite x
has_fract(x) == x.halves % 2 # 0
\* x as u64 and x as u8, for a finite x that is not negative
truncated(x) == x.halves \div 2

\* JsAction::PressKey { code: f64 }
JsPressKey(code) == [type |-> "PressKey", code |-> code]
\* JsAction::TypeText { text, delay_millis: f64 }
JsTypeText(text, delay_millis) ==
    [type |-> "TypeText", text |-> text, delay_millis |-> delay_millis]
\* JsAction::ScrollUp and BrowserAction::ScrollUp { origin, distance: f64 }
ScrollUp(scroll_origin, distance) ==
    [type |-> "ScrollUp", origin |-> scroll_origin, distance |-> distance]

Ok(x) == [ok |-> x]
Err(e) == [err |-> e]
IsOk(r) == "ok" \in DOMAIN r

to_browser_action_truncates_code(js_action) ==
    CASE js_action.type = "TypeText" ->
           IF ~is_finite(js_action.delay_millis)
              \/ js_action.delay_millis.halves < 0
           THEN Err("delayMillis must be a non-negative finite number")
           ELSE Ok(TypeText(js_action.text,
                            truncated(js_action.delay_millis)))
      [] js_action.type = "PressKey" ->
           IF ~is_finite(js_action.code)
              \/ js_action.code.halves < 0
              \/ js_action.code.halves > 2 * 255
           THEN Err("code must be an integer between 0 and 255")
           ELSE Ok(PressKey(truncated(js_action.code)))
      [] OTHER -> Ok(js_action)

\* JsAction::to_browser_action
to_browser_action(js_action) ==
    CASE js_action.type = "TypeText" ->
           IF ~is_finite(js_action.delay_millis)
              \/ js_action.delay_millis.halves < 0
           THEN Err("delayMillis must be a non-negative finite number")
           ELSE Ok(TypeText(js_action.text,
                            truncated(js_action.delay_millis)))
      [] js_action.type = "PressKey" ->
           IF ~is_finite(js_action.code)
              \/ js_action.code.halves < 0
              \/ js_action.code.halves > 2 * 255
              \/ has_fract(js_action.code)
           THEN Err("code must be an integer between 0 and 255")
           ELSE Ok(PressKey(truncated(js_action.code)))
      [] OTHER -> Ok(js_action)

\* Tree::try_map with to_browser_action: the first failing leaf fails the
\* whole conversion; otherwise every leaf is replaced by its image.
RECURSIVE MapLeaves(_)
MapLeaves(t) ==
    IF IsLeaf(t) THEN Leaf(to_browser_action(t.leaf).ok)
    ELSE Branch([i \in DOMAIN t.branches |->
                    <<t.branches[i][1], MapLeaves(t.branches[i][2])>>])

try_map(t) ==
    IF \E a \in Leaves(t) : ~IsOk(to_browser_action(a))
    THEN Err("code must be an integer between 0 and 255")
    ELSE Ok(MapLeaves(t))

\* The trees the action generator returns in the states of a run: no
\* action, one action, weighted actions, nested and empty branches, a
\* weight of zero, and a key code that does not convert.
GenTrees ==
    { Branch(<<>>),
      Branch(<<<<1, Leaf(Click)>>>>),
      Branch(<<<<1, Leaf(Back)>>, <<2, Leaf(Click)>>>>),
      Branch(<<<<1, Leaf(JsPressKey(Finite(2 * 13)))>>,
               <<1, Branch(<<<<1, Leaf(Back)>>, <<1, Branch(<<>>)>>>>)>>>>),
      Branch(<<<<0, Leaf(Back)>>>>),
      Branch(<<<<1, Leaf(Back)>>, <<1, Leaf(JsPressKey(Finite(2 * 256)))>>>>) }

\* StepResult.actions: one top-level Branch, every generator weighted 1.
action_tree_of(generated) == Branch(<<<<1, generated>>>>)

(***************************************************************************)
(* runner.rs: Runner::run_test, the handling of one StateChanged           *)
(***************************************************************************)
\* The URLs a snapshot can carry.
StateUrls ==
    { TestOrigin,
      [host |-> Some("localhost"), port |-> Some(8081)],
      [host |-> Some("localhost"), port |-> None] }

\* The time the next snapshot of a run carries: one tick after the last.
StateTimes == {clock + 1}

\* What can go wrong in the calls the handler awaits: run_extractors or
\* verifier.step fails ("step"), or browser.apply does.
Faults == {"none", "step", "apply"}

\* The violations collected from the step's values, and whether every
\* property is definite.
Violations(values) ==
    {[name |-> p, violation |-> values[p].violation] :
        p \in {q \in DOMAIN values : values[q].tag = "False"}}

AllDefinite(values) == \A p \in DOMAIN values : values[p].tag # "Residual"

\* A handler that leaves the tree as it is, whatever the URL.
OriginFilter_unfiltered(action_tree, url) == action_tree

\* "Make sure we stay within origin."
OriginFilter(action_tree, url) ==
    IF ~is_within_domain(url, origin)
    THEN filter(action_tree, {Back})
    ELSE action_tree

\* A handler that goes on after a violation.
StopsRun_no_violation_stop(has_violations, all_properties_definite) ==
    all_properties_definite

\* A handler that goes on when every property is definite.
StopsRun_no_definite_stop(has_violations, all_properties_definite) ==
    has_violations /\ options.stop_on_violation

\* The two returns that follow the NewState event.
StopsRun(has_violations, all_properties_definite) ==
    \/ has_violations /\ options.stop_on_violation
    \/ all_properties_definite

\* A handler that dispatches before it reports the state.
HandlerCalls_apply_first(dispatches) ==
    IF dispatches THEN <<"step", "try_map", "apply", "send">>
    ELSE <<"step", "try_map", "send">>

\* The calls of a handler whose step and conversion succeeded, in the order
\* in which it makes them.
HandlerCalls(dispatches) ==
    IF dispatches THEN <<"step", "try_map", "send", "apply">>
    ELSE <<"step", "try_map", "send">>

\* The handler ends the run: run_test returns r.
Returns(r, calls, event) ==
    /\ result' = r
    /\ pc' = "terminate"
    /\ ops' = calls
    /\ emitted' = event
    /\ applied' = None
    /\ UNCHANGED last_action

Applies_forgets(action) ==
    /\ applied' = action
    /\ UNCHANGED last_action

\* browser.apply(action.clone(), timeout)?; last_action = Some(action);
Applies(action) ==
    /\ applied' = action
    /\ last_action' = action

RunnerStateChanged ==
    /\ pc = "loop"
    /\ n < MaxSnapshots
    /\ \E url \in StateUrls, snapshot \in Snapshots, time \in StateTimes,
          generated \in GenTrees, fault \in Faults :
        LET values == StepValues(properties, snapshot, time)
            converted == try_map(action_tree_of(generated))
            violations == Violations(values)
            all_properties_definite == AllDefinite(values)
            has_violations == violations # {}
            action_tree == OriginFilter(converted.ok, url)
            event == Some([last_action |-> last_action,
                           violations |-> violations])
            pruned == prune(action_tree)
        IN  /\ cur' = Some([url |-> url, actions |-> converted])
            /\ IF fault = "step"
               THEN /\ Returns("Err: step", <<>>, None)
                    /\ UNCHANGED verifierVars
               ELSE
                 /\ properties' = StepStates(properties, snapshot, time)
                 /\ step_result' = values
                 /\ evaluated' = StepEvaluated(properties, snapshot, time)
                 /\ clock' = time
                 /\ n' = n + 1
                 /\ UNCHANGED seen
                 /\ IF ~IsOk(converted)
                    THEN Returns("Err: to_browser_action", <<"step">>, None)
                    ELSE IF StopsRun(has_violations, all_properties_definite)
                    THEN Returns("Ok", HandlerCalls(FALSE), event)
                    ELSE IF pruned = None
                    THEN Returns("Err: no actions available",
                                 HandlerCalls(FALSE), event)
                    ELSE \E picked \in pick(pruned) :
                           IF picked = Panic
                           THEN /\ pc' = "panicked"
                                /\ ops' = HandlerCalls(FALSE)
                                /\ emitted' = event
                                /\ applied' = None
                                /\ UNCHANGED <<result, last_action>>
                           ELSE IF picked = None
                           THEN Returns("Err: pick", HandlerCalls(FALSE), event)
                           ELSE IF fault = "apply"
                           THEN /\ result' = "Err: apply"
                                /\ pc' = "terminate"
                                /\ ops' = HandlerCalls(TRUE)
                                /\ emitted' = event
                                /\ applied' = picked
                                /\ UNCHANGED last_action
                           ELSE /\ pc' = "loop"
                                /\ ops' = HandlerCalls(TRUE)
                                /\ emitted' = event
                                /\ Applies(picked)
                                /\ UNCHANGED result
    /\ UNCHANGED <<auxVars, urlVars, origin, options, shutdown, terminated, done>>

(***************************************************************************)
(* runner.rs: Runner::start, the select of run_test, RunEvents::shutdown   *)
(***************************************************************************)
\* The sets of properties a specification under test exports.
PropertySets ==
    { {}, {"always"}, {"eventually"}, {"always", "eventually"} }

Init ==
    /\ origin = TestOrigin
    /\ options \in [stop_on_violation : BOOLEAN]
    /\ pc = "start"
    /\ result = "none"
    /\ last_action = None
    /\ cur = None
    /\ ops = <<>>
    /\ emitted = None
    /\ applied = None
    /\ shutdown = FALSE
    /\ terminated = 0
    /\ done = None
    /\ \E names \in PropertySets : properties = NewProperties(names)
    /\ step_result = NewProperties({})
    /\ evaluated = {}
    /\ clock = 0
    /\ n = 0
    /\ seen = NoHistory
    /\ IdleUrl
    /\ IdleAux

\* A failed initiate that ends the task's work on the browser at once.
RunnerInitiate_skips_terminate ==
    /\ pc = "start"
    /\ \E ok \in BOOLEAN :
         IF ok THEN pc' = "loop" /\ UNCHANGED result
         ELSE pc' = "send" /\ result' = "Err: initiate"
    /\ UNCHANGED <<auxVars, urlVars, origin, options, last_action, cur, ops, emitted,
                   applied, shutdown, terminated, done, verifierVars>>

\* browser.initiate() and verifier.extractors(): either can fail.
RunnerInitiate ==
    /\ pc = "start"
    /\ \E ok \in BOOLEAN :
         IF ok THEN pc' = "loop" /\ UNCHANGED result
         ELSE pc' = "terminate" /\ result' = "Err: initiate"
    /\ UNCHANGED <<auxVars, urlVars, origin, options, last_action, cur, ops, emitted,
                   applied, shutdown, terminated, done, verifierVars>>

\* A shutdown branch that notes the result and stays in the loop.
RunnerShutdown_keeps_looping ==
    /\ pc = "loop"
    /\ shutdown
    /\ result' = "Ok"
    /\ pc' = "loop"
    /\ UNCHANGED <<auxVars, urlVars, origin, options, last_action, cur, ops, emitted,
                   applied, shutdown, terminated, done, verifierVars>>

\* select!: the shutdown branch.
RunnerShutdown ==
    /\ pc = "loop"
    /\ shutdown
    /\ result' = "Ok"
    /\ pc' = "terminate"
    /\ UNCHANGED <<auxVars, urlVars, origin, options, last_action, cur, ops, emitted,
                   applied, shutdown, terminated, done, verifierVars>>

\* select!: BrowserEvent::Error.
RunnerBrowserError ==
    /\ pc = "loop"
    /\ result' = "Err: state machine error"
    /\ pc' = "terminate"
    /\ UNCHANGED <<auxVars, urlVars, origin, options, last_action, cur, ops, emitted,
                   applied, shutdown, terminated, done, verifierVars>>

\* select!: next_event() returned None.
RunnerBrowserClosed ==
    /\ pc = "loop"
    /\ result' = "Err: browser closed"
    /\ pc' = "terminate"
    /\ UNCHANGED <<auxVars, urlVars, origin, options, last_action, cur, ops, emitted,
                   applied, shutdown, terminated, done, verifierVars>>

\* browser.terminate().await.expect(..): a failure panics the task.
RunnerTerminate ==
    /\ pc = "terminate"
    /\ terminated' = terminated + 1
    /\ \E ok \in BOOLEAN : pc' = IF ok THEN "send" ELSE "panicked"
    /\ UNCHANGED <<auxVars, urlVars, origin, options, result, last_action, cur, ops,
                   emitted, applied, shutdown, done, verifierVars>>

\* done_sender.send(result)
RunnerSendDone ==
    /\ pc = "send"
    /\ done' = Some(result)
    /\ pc' = "finished"
    /\ UNCHANGED <<auxVars, urlVars, origin, options, result, last_action, cur, ops,
                   emitted, applied, shutdown, terminated, verifierVars>>

\* RunEvents::shutdown: self.shutdown.send(())
ShutdownSignal ==
    /\ ~shutdown
    /\ shutdown' = TRUE
    /\ UNCHANGED <<auxVars, urlVars, origin, options, pc, result, last_action, cur, ops,
                   emitted, applied, terminated, done, verifierVars>>

Next ==
    \/ RunnerInitiate
    \/ RunnerStateChanged
    \/ RunnerShutdown
    \/ RunnerBrowserError
    \/ RunnerBrowserClosed
    \/ RunnerTerminate
    \/ RunnerSendDone
    \/ ShutdownSignal

Spec == Init /\ [][Next]_vars

\* The spawned task is polled until it completes: each of its steps that
\* waits for nothing outside the task is taken once it can be, and so is
\* the shutdown branch of select! once the signal is there.  The events of
\* the browser and the call of RunEvents::shutdown are up to others.
FairSpec ==
    /\ Spec
    /\ WF_vars(RunnerInitiate)
    /\ WF_vars(RunnerShutdown)
    /\ WF_vars(RunnerTerminate)
    /\ WF_vars(RunnerSendDone)

(***************************************************************************)
(* instrumentation.rs: the loop of the task instrument_js_coverage spawns. *)
(* Each EventRequestPaused of the stream is handed to intercept; the CDP   *)
(* commands carry the request id, the FulfillRequest its response code     *)
(* (its body and header list are those of SpecHeaders).                    *)
(***************************************************************************)
MaxPaused == 3

ContinueRequest(id) ==
    [method |-> "Fetch.continueRequest", request_id |-> id]
GetResponseBody(id) ==
    [method |-> "Fetch.getResponseBody", request_id |-> id]
FulfillRequest(id) ==
    [method |-> "Fetch.fulfillRequest", request_id |-> id,
     response_code |-> 200]

\* An anyhow error: its chain of messages, the outermost context first.
\* format!("{error:?}").contains(text) finds text in any of them.
contains(error, text) == \E i \in 1 .. Len(error) : error[i] = text

\* What page.execute answers: Ok, or Err of a CDP error message.
CdpErrors == {"Invalid InterceptionId", "Request timed out"}
CdpReplies == {Ok("done")} \cup {Err(m) : m \in CdpErrors}

\* GetResponseBodyReturns: base64_encoded and body.
ResponseBody(encoded, body) == [base64_encoded |-> encoded, body |-> body]
ResponseBodies ==
    { ResponseBody(FALSE, "<html>"), ResponseBody(TRUE, "<html>"),
      ResponseBody(FALSE, "<?xml"), ResponseBody(TRUE, "not base64"),
      ResponseBody(TRUE, "not utf-8") }

\* BASE64_STANDARD.decode followed by String::from_utf8, or the clone.
decode_body(body_response) ==
    IF body_response.base64_encoded
    THEN CASE body_response.body = "not base64" -> Err(<<"DecodeError">>)
           [] body_response.body = "not utf-8" -> Err(<<"FromUtf8Error">>)
           [] OTHER -> Ok(body_response.body)
    ELSE Ok(body_response.body)

\* h.value.starts_with("text/html") over the content types of the model.
starts_with_text_html(value) ==
    value \in {Text("text/html"), Text("text/html; charset=utf-8")}

\* body.trim_start().starts_with("<?xml") over the bodies of the model.
starts_with_xml(body) == body = "<?xml"

RECURSIVE find_content_type(_)
find_content_type(headers) ==
    IF headers = <<>> THEN None
    ELSE IF eq_ignore_ascii_case(Head(headers).name, "content-type")
         THEN Some(Head(headers))
         ELSE find_content_type(Tail(headers))

is_html_document(event, body) ==
    /\ event.resource_type = "Document"
    /\ LET found == IF event.response_headers = None THEN None
                     ELSE find_content_type(event.response_headers.some)
       IN  IF found = None THEN ~starts_with_xml(body)
           ELSE starts_with_text_html(found.some.value)

\* The intercept closure.  reply holds what the page and the instrumenters
\* answer: headers (json::from_value), body (GetResponseBody), instrument
\* (instrument_source_code / instrument_inline_scripts), fulfil and
\* continue (page.execute).  It returns the commands it executed, the
\* levels it logged at and its Result.
intercept(event, reply) ==
    LET id == event.request_id
        status == event.response_status_code
    IN  IF status # None /\ status.some # 200
        THEN [commands |-> <<ContinueRequest(id)>>,
              logs |-> <<>>,
              result |-> IF IsOk(reply.continue) THEN Ok("()")
                         ELSE Err(<<"failed continuing request",
                                    reply.continue.err>>)]
        ELSE IF ~IsOk(reply.headers)
        THEN [commands |-> <<>>, logs |-> <<>>,
              result |-> Err(<<reply.headers.err>>)]
        ELSE IF ~IsOk(reply.body)
        THEN [commands |-> <<GetResponseBody(id)>>, logs |-> <<>>,
              result |-> Err(<<"failed getting response body",
                               reply.body.err>>)]
        ELSE IF ~IsOk(decode_body(reply.body.ok))
        THEN [commands |-> <<GetResponseBody(id)>>, logs |-> <<>>,
              result |-> decode_body(reply.body.ok)]
        ELSE
        LET body == decode_body(reply.body.ok).ok
            instruments ==
              \/ event.resource_type = "Script"
              \/ is_html_document(event, body)
            wrote == IF event.resource_type = "Script" /\ IsOk(reply.instrument)
                     THEN <<"debug">> ELSE <<>>
        IN  IF instruments /\ ~IsOk(reply.instrument)
            THEN [commands |-> <<GetResponseBody(id)>>, logs |-> <<>>,
                  result |-> Err(<<reply.instrument.err>>)]
            ELSE IF ~instruments /\ event.resource_type # "Document"
            THEN [commands |-> <<GetResponseBody(id)>>, logs |-> <<>>,
                  result |-> Err(<<"should only intercept script and document resources">>)]
            ELSE IF ~IsOk(reply.fulfil)
            THEN [commands |-> <<GetResponseBody(id), FulfillRequest(id)>>,
                  logs |-> wrote,
                  result |-> Err(<<"failed fulfilling request",
                                   reply.fulfil.err>>)]
            ELSE [commands |-> <<GetResponseBody(id), FulfillRequest(id)>>,
                  logs |-> wrote \o <<"debug">>,
                  result |-> Ok("()")]

\* A loop body that logs a failure and issues nothing for it.
handle_without_continue(event, reply) ==
    LET i == intercept(event, reply)
    IN  [commands |-> i.commands,
         logs |-> i.logs \o (IF IsOk(i.result) THEN <<>> ELSE <<"warn">>),
         result |-> i.result, listening |-> TRUE]

\* The body of the while-let loop for one event: intercept, and what is
\* done about its error.  reply.fallback answers the ContinueRequest.
handle(event, reply) ==
    LET i == intercept(event, reply)
    IN  IF IsOk(i.result)
        THEN [commands |-> i.commands, logs |-> i.logs,
              result |-> i.result, listening |-> TRUE]
        ELSE IF contains(i.result.err, "Invalid InterceptionId")
        THEN [commands |-> i.commands, logs |-> i.logs \o <<"debug">>,
              result |-> i.result, listening |-> TRUE]
        ELSE [commands |-> i.commands
                             \o <<ContinueRequest(event.request_id)>>,
              logs |-> i.logs \o <<"warn">>
                         \o (IF IsOk(reply.fallback) THEN <<>>
                             ELSE <<"warn">>),
              result |-> i.result, listening |-> TRUE]

\* The resource types of the two patterns Fetch is enabled with.
InterceptedTypes == {"Script", "Document"}
StatusCodes == {None, Some(200), Some(404)}
ContentTypes ==
    { None,
      Some(<<HeaderEntry("Content-Type", Text("text/html; charset=utf-8"))>>),
      Some(<<HeaderEntry("content-type", Text("application/pdf"))>>) }

EventRequestPaused(id) ==
    [request_id : {id}, response_status_code : StatusCodes,
     resource_type : InterceptedTypes, response_headers : ContentTypes]

AllOk == [headers |-> Ok("map"), body |-> Ok(ResponseBody(FALSE, "<html>")),
          instrument |-> Ok("source"), fulfil |-> Ok("done"),
          continue |-> Ok("done"), fallback |-> Ok("done")]

\* The answers that matter for the event: those of the calls made for it.
Replies(event) ==
    IF /\ event.response_status_code # None
       /\ event.response_status_code.some # 200
    THEN {[AllOk EXCEPT !.continue = c, !.fallback = f] :
            c \in CdpReplies, f \in CdpReplies}
    ELSE {[AllOk EXCEPT !.headers = h, !.body = b, !.instrument = i,
                        !.fulfil = u, !.fallback = f] :
            h \in {Ok("map"), Err("invalid type")},
            b \in {Ok(r) : r \in ResponseBodies}
                    \cup {Err(m) : m \in CdpErrors},
            i \in {Ok("source"), Err("parse error")},
            u \in CdpReplies, f \in CdpReplies}

InitPipeline ==
    /\ listening = TRUE
    /\ taken = 0
    /\ paused = None
    /\ commands = <<>>
    /\ logs = <<>>
    /\ intercept_result = None
    /\ origin = TestOrigin
    /\ IdleUrl
    /\ IdleRunner
    /\ IdleVerifier
    /\ IdleTwin
    /\ IdleTree
    /\ IdleCsp
    /\ IdleHeaders
    /\ IdleKeys
    /\ IdleLoad
    /\ IdleLate

\* events.next() yields an event and the loop body runs for it.
RequestPaused ==
    /\ listening
    /\ taken < MaxPaused
    /\ \E event \in EventRequestPaused(taken + 1) :
         \E reply \in Replies(event) :
            LET h == handle(event, reply)
            IN  /\ paused' = Some(event)
                /\ commands' = h.commands
                /\ logs' = h.logs
                /\ intercept_result' = Some(h.result)
                /\ listening' = h.listening
    /\ taken' = taken + 1
    /\ UNCHANGED <<urlVars, origin, runnerVars, verifierVars, verifiers,
                   treeVars, cspVars, headerVars, keyVars, loadVars,
                   lateVars>>

\* events.next() yields None: the loop and the task end.
StreamEnded ==
    /\ listening
    /\ listening' = FALSE
    /\ UNCHANGED <<taken, paused, commands, logs, intercept_result>>
    /\ UNCHANGED <<urlVars, origin, runnerVars, verifierVars, verifiers,
                   treeVars, cspVars, headerVars, keyVars, loadVars,
                   lateVars>>

NextPipeline == RequestPaused \/ StreamEnded

SpecPipeline == InitPipeline /\ [][NextPipeline]_vars

(***************************************************************************)
(* keys.rs: key_info; actions.rs: BrowserAction::apply for PressKey.       *)
(***************************************************************************)
U8 == 0 .. 255

SUPPORTED_KEY_CODES == {8, 9, 13, 27, 37, 38, 39, 40}

KeyInfo(code, key, text) == [code |-> code, key |-> key, text |-> text]

\* A table in which every key carries the text of Enter.
key_info_text_of_enter(code) ==
    CASE code = 8 -> Some(KeyInfo("Backspace", "Backspace", "\r"))
      [] code = 9 -> Some(KeyInfo("Tab", "Tab", "\r"))
      [] code = 13 -> Some(KeyInfo("Enter", "Enter", "\r"))
      [] code = 27 -> Some(KeyInfo("Escape", "Escape", "\r"))
      [] code = 37 -> Some(KeyInfo("ArrowLeft", "ArrowLeft", "\r"))
      [] code = 38 -> Some(KeyInfo("ArrowUp", "ArrowUp", "\r"))
      [] code = 39 -> Some(KeyInfo("ArrowRight", "ArrowRight", "\r"))
      [] code = 40 -> Some(KeyInfo("ArrowDown", "ArrowDown", "\r"))
      [] OTHER -> None

key_info(code) ==
    CASE code = 8 -> Some(KeyInfo("Backspace", "Backspace", ""))
      [] code = 9 -> Some(KeyInfo("Tab", "Tab", ""))
      [] code = 13 -> Some(KeyInfo("Enter", "Enter", "\r"))
      [] code = 27 -> Some(KeyInfo("Escape", "Escape", ""))
      [] code = 37 -> Some(KeyInfo("ArrowLeft", "ArrowLeft", ""))
      [] code = 38 -> Some(KeyInfo("ArrowUp", "ArrowUp", ""))
      [] code = 39 -> Some(KeyInfo("ArrowRight", "ArrowRight", ""))
      [] code = 40 -> Some(KeyInfo("ArrowDown", "ArrowDown", ""))
      [] OTHER -> None

\* actions::keys::key_name: the name of a supported key, None otherwise.
key_name(code) ==
    CASE code = 8 -> Some("Backspace")
      [] code = 9 -> Some("Tab")
      [] code = 13 -> Some("Enter")
      [] code = 27 -> Some("Escape")
      [] code = 37 -> Some("ArrowLeft")
      [] code = 38 -> Some("ArrowUp")
      [] code = 39 -> Some("ArrowRight")
      [] code = 40 -> Some("ArrowDown")
      [] OTHER -> None

\* input::DispatchKeyEventType, in the order apply uses them.
DispatchKeyEventTypes == <<"rawKeyDown", "char", "keyUp">>

\* The build_params closure of the PressKey arm.
build_params(code, event_type) ==
    IF key_name(code) # None
    THEN Ok([type |-> event_type,
             native_virtual_key_code |-> code,
             windows_virtual_key_code |-> code,
             code |-> key_name(code).some,
             key |-> key_name(code).some,
             unmodified_text |-> "\r",
             text |-> "\r"])
    ELSE Err("unknown key with code")

\* The PressKey arm from its i-th page.execute on: failing is the index of
\* the page.execute that returns an error, 0 when none does.
RECURSIVE press_key(_, _, _)
press_key(code, i, failing) ==
    IF i > Len(DispatchKeyEventTypes)
    THEN [events |-> <<>>, result |-> Ok("()")]
    ELSE LET params == build_params(code, DispatchKeyEventTypes[i])
         IN  IF ~IsOk(params)
             THEN [events |-> <<>>, result |-> params]
             ELSE IF i = failing
             THEN [events |-> <<>>, result |-> Err("CDP error")]
             ELSE LET rest == press_key(code, i + 1, failing)
                  IN  [events |-> <<params.ok>> \o rest.events,
                       result |-> rest.result]

InitKeys ==
    /\ key_code \in U8
    /\ key_info_result = None
    /\ key_events = <<>>
    /\ press_result = None
    /\ origin = TestOrigin
    /\ IdleUrl
    /\ IdleRunner
    /\ IdleVerifier
    /\ IdleTwin
    /\ IdleTree
    /\ IdleCsp
    /\ IdleHeaders
    /\ IdlePipeline
    /\ IdleLoad
    /\ IdleLate

CallKeyInfo ==
    /\ key_info_result = None
    /\ key_info_result' = Some(key_info(key_code))
    /\ UNCHANGED <<key_code, key_events, press_result>>
    /\ UNCHANGED <<urlVars, origin, runnerVars, verifierVars, verifiers,
                   treeVars, cspVars, headerVars, pipelineVars, loadVars,
                   lateVars>>

ApplyPressKey ==
    /\ press_result = None
    /\ \E failing \in 0 .. Len(DispatchKeyEventTypes) :
         LET pressed == press_key(key_code, 1, failing)
         IN  /\ key_events' = pressed.events
             /\ press_result' = Some(pressed.result)
    /\ UNCHANGED <<key_code, key_info_result>>
    /\ UNCHANGED <<urlVars, origin, runnerVars, verifierVars, verifiers,
                   treeVars, cspVars, headerVars, pipelineVars, loadVars,
                   lateVars>>

NextKeys == CallKeyInfo \/ ApplyPressKey

SpecKeys == InitKeys /\ [][NextKeys]_vars

(***************************************************************************)
(* verifier.rs: Verifier::new, the walk over the specification's exports.  *)
(***************************************************************************)
MaxExports == 3

\* boa's PropertyKey: a string, or a symbol with an optional description.
StringKey(name) == [string |-> name]
SymbolKey(description) == [symbol |-> description]
IsSymbol(key) == "symbol" \in DOMAIN key

\* key.to_string()
key_to_string(key) ==
    IF IsSymbol(key)
    THEN IF key.symbol = None THEN "Symbol()" ELSE key.symbol.some
    ELSE key.string

IGNORED_SYMBOL_EXPORTS == {"Symbol.toStringTag"}

\* Syntax: the formula as written, where Not can stand anywhere; nnf pushes
\* it down to the thunk.
Not(syntax) == [op |-> "Not", arg |-> syntax]
NegatedThunk(thunk) == [negated |-> thunk]

RECURSIVE nnf(_)
nnf(syntax) ==
    IF syntax.op # "Not" THEN syntax
    ELSE LET inner == syntax.arg
         IN  CASE inner.op = "Not" -> nnf(inner.arg)
               [] inner.op = "Always" ->
                    Eventually(NegatedThunk(inner.thunk), inner.bound)
               [] inner.op = "Eventually" ->
                    Always(NegatedThunk(inner.thunk), inner.bound)
               [] inner.op = "Next" -> Next_(NegatedThunk(inner.thunk))

\* One export: its key, the class it is an instance of (if any) and what
\* the walk reads of its value: for a Formula the result of
\* Syntax::from_value, for an ActionGenerator the type of its generate.
Export(key, class, value) ==
    [key |-> key, instance_of |-> class, value |-> value]

Loading(props, generators) ==
    [properties |-> props, action_generators |-> generators]

\* A loop body that passes over whatever it does not know.
register_or_skip(export, loading) ==
    IF export.instance_of = "Formula"
    THEN IF ~IsOk(export.value.syntax)
         THEN Err(export.value.syntax.err)
         ELSE LET name == key_to_string(export.key)
                  formula == nnf(export.value.syntax.ok)
              IN  Ok(Loading(
                       [p \in DOMAIN loading.properties \cup {name} |->
                           IF p = name THEN Initial(formula)
                           ELSE loading.properties[p]],
                       loading.action_generators))
    ELSE IF export.instance_of = "ActionGenerator"
    THEN IF export.value.generate # "function"
         THEN Err("action is not a function")
         ELSE Ok(Loading(loading.properties,
                         loading.action_generators
                           \cup {key_to_string(export.key)}))
    ELSE Ok(loading)

\* The body of the for loop over the exports: Ok of the maps after this
\* export, or the Err that Verifier::new returns.
register(export, loading) ==
    IF export.instance_of = "Formula"
    THEN IF ~IsOk(export.value.syntax)
         THEN Err(export.value.syntax.err)
         ELSE LET name == key_to_string(export.key)
                  formula == nnf(export.value.syntax.ok)
              IN  Ok(Loading(
                       [p \in DOMAIN loading.properties \cup {name} |->
                           IF p = name THEN Initial(formula)
                           ELSE loading.properties[p]],
                       loading.action_generators))
    ELSE IF export.instance_of = "ActionGenerator"
    THEN IF export.value.generate # "function"
         THEN Err("action is not a function")
         ELSE Ok(Loading(loading.properties,
                         loading.action_generators
                           \cup {key_to_string(export.key)}))
    ELSE IF /\ IsSymbol(export.key)
            /\ export.key.symbol # None
            /\ export.key.symbol.some \in IGNORED_SYMBOL_EXPORTS
    THEN Ok(loading)
    ELSE Err("export is of unknown type")

\* The loop, and the test for generators that follows it.
RECURSIVE walk_exports(_, _)
walk_exports(exports, loading) ==
    IF exports = <<>>
    THEN IF loading.action_generators = {}
         THEN Err("specification exports no action generators")
         ELSE Ok(loading)
    ELSE LET registered == register(Head(exports), loading)
         IN  IF IsOk(registered)
             THEN walk_exports(Tail(exports), registered.ok)
             ELSE registered

\* The exports a specification under test can have.
Exports ==
    { Export(StringKey("always"), "Formula",
             [syntax |-> Ok(Formulas.always)]),
      Export(StringKey("never"), "Formula",
             [syntax |-> Ok(Not(Formulas.eventually_bounded))]),
      Export(StringKey("malformed"), "Formula",
             [syntax |-> Err("unknown formula")]),
      Export(StringKey("clicks"), "ActionGenerator",
             [generate |-> "function"]),
      Export(StringKey("broken"), "ActionGenerator",
             [generate |-> "undefined"]),
      Export(SymbolKey(Some("Symbol.toStringTag")), "none",
             [type_of |-> "string"]),
      Export(SymbolKey(Some("Symbol.iterator")), "none",
             [type_of |-> "function"]),
      Export(StringKey("helper"), "none", [type_of |-> "number"]) }

\* A module exports each key once.
ExportLists ==
    {exports \in UNION {[1 .. k -> Exports] : k \in 0 .. MaxExports} :
        \A i, j \in DOMAIN exports :
            exports[i].key = exports[j].key => i = j}

InitLoad ==
    /\ specification_exports \in ExportLists
    /\ loaded = None
    /\ origin = TestOrigin
    /\ IdleUrl
    /\ IdleRunner
    /\ IdleVerifier
    /\ IdleTwin
    /\ IdleTree
    /\ IdleCsp
    /\ IdleHeaders
    /\ IdlePipeline
    /\ IdleKeys
    /\ IdleLate

VerifierNew ==
    /\ loaded = None
    /\ loaded' = Some(walk_exports(specification_exports,
                                   Loading(<<>>, {})))
    /\ UNCHANGED specification_exports
    /\ UNCHANGED <<urlVars, origin, runnerVars, verifierVars, verifiers,
                   treeVars, cspVars, headerVars, pipelineVars, keyVars,
                   lateVars>>

SpecLoad == InitLoad /\ [][VerifierNew]_vars

(***************************************************************************)
(* state.rs: BrowserState::current, the coverage read and the transition   *)
(* hash.  window.<NAMESPACE> is installed: without it the first script     *)
(* returns [] and the second null.                                         *)
(***************************************************************************)
\* The hit counts the instrumented page leaves in an entry of current
\* between two reads.
HitCounts == {0, 2, 3, 8}

Min(a, b) == IF a < b THEN a ELSE b
Max(a, b) == IF a > b THEN a ELSE b

\* while (n > 0) { n = n >> 1; msb++; }
RECURSIVE BitLength(_)
BitLength(m) == IF m > 0 THEN 1 + BitLength(m \div 2) ELSE 0

\* function bucket(hits) of the coverage script
bucket(hits) ==
    IF hits <= 3 THEN hits ELSE Min(BitLength(hits) + 1, 8)

differences_of_all(i, current, previous) ==
    [k \in 1 .. EdgeMapSize |-> <<k - 1, current[k - 1]>>]

\* The loop "Compute differences" from index i on: [i, current[i]] for
\* every i whose entries differ, in index order.
RECURSIVE differences(_, _, _)
differences(i, current, previous) ==
    IF i >= EdgeMapSize THEN <<>>
    ELSE (IF current[i] # previous[i] THEN <<<<i, current[i]>>>> ELSE <<>>)
         \o differences(i + 1, current, previous)

SIMHASH_BITS == 64

\* hash64(x) of the transition hash script for the indices of the cut-down
\* map: the low 64 bits of the BigInt it returns, as four 16-bit limbs,
\* least significant first.
hash64(x) ==
    CASE x = 0 -> <<34095, 14061, 29756, 38561>>   \* 0x96a1743c36ed852f
      [] x = 1 -> <<7873, 56769, 63533, 42917>>    \* 0xa7a5f82dddc11ec1
      [] x = 2 -> <<50446, 55720, 11380, 47754>>   \* 0xba8a2c74d9a8c50e
      [] x = 3 -> <<17389, 26077, 31577, 48911>>   \* 0xbf0f7b5965dd43ed

\* (h >> BigInt(b)) & 1n
Bit(h, b) == (h[(b \div 16) + 1] \div (2 ^ (b % 16))) % 2

weight_presence_only(a_bucket) == 1

\* Math.max(1, Math.min(3, Math.floor(Math.log2(bucket)))), bucket > 0
weight(a_bucket) == Max(1, Min(3, BitLength(a_bucket) - 1))

\* acc[b] after the loop over the indices from i on
RECURSIVE acc(_, _, _)
acc(b, i, previous) ==
    IF i >= EdgeMapSize THEN 0
    ELSE (IF previous[i] = 0 THEN 0
          ELSE IF Bit(hash64(i), b) = 1 THEN weight(previous[i])
          ELSE 0 - weight(previous[i]))
         + acc(b, i + 1, previous)

\* What the script returns: null, or the BigInt out, held as the set of
\* the positions of its set bits.
Null == [null |-> TRUE]
Out(bits) == [bits |-> bits]

\* The transition hash script over previous.
simhash(previous) ==
    IF \A b \in 0 .. (SIMHASH_BITS - 1) : acc(b, 0, previous) = 0
    THEN Null
    ELSE Out({b \in 0 .. (SIMHASH_BITS - 1) : acc(b, 0, previous) > 0})

InitCoverage ==
    /\ IdleCoverage
    /\ origin = TestOrigin
    /\ IdleUrl
    /\ IdleRunner
    /\ IdleVerifier
    /\ IdleTwin
    /\ IdleTree
    /\ IdleCsp
    /\ IdleHeaders
    /\ IdlePipeline
    /\ IdleKeys
    /\ IdleLoad
    /\ IdleEdges
    /\ IdleId
    /\ IdleJs

\* The page runs between two reads: instrumented edges increment entries
\* of current, and the BrowserState of the read before is history.
Execute ==
    /\ edges_current = ZeroedMap
    /\ \E hits \in [EdgeIndices -> HitCounts] \ {ZeroedMap} :
          edges_current' = hits
    /\ edges_new' = None
    /\ transition_hash' = None
    /\ UNCHANGED edges_previous
    /\ UNCHANGED <<urlVars, origin, runnerVars, verifierVars, verifiers,
                   treeVars, cspVars, headerVars, pipelineVars, keyVars,
                   loadVars, edgeVars, idVars, jsVars>>

CoverageRead_keeps_current ==
    LET bucketed == [i \in EdgeIndices |-> bucket(edges_current[i])]
    IN  /\ edges_new' = Some(differences(0, bucketed, edges_previous))
        /\ edges_previous' = bucketed
        /\ edges_current' = bucketed
        /\ transition_hash' = Some(simhash(bucketed))
        /\ UNCHANGED <<urlVars, origin, runnerVars, verifierVars, verifiers,
                       treeVars, cspVars, headerVars, pipelineVars, keyVars,
                       loadVars, edgeVars, idVars, jsVars>>

\* BrowserState::current: the coverage script (bucket in place, diff,
\* rotate), then the transition hash script over the new previous.
CoverageRead ==
    LET bucketed == [i \in EdgeIndices |-> bucket(edges_current[i])]
    IN  /\ edges_new' = Some(differences(0, bucketed, edges_previous))
        /\ edges_previous' = bucketed
        /\ edges_current' = ZeroedMap
        /\ transition_hash' = Some(simhash(bucketed))
        /\ UNCHANGED <<urlVars, origin, runnerVars, verifierVars, verifiers,
                       treeVars, cspVars, headerVars, pipelineVars, keyVars,
                       loadVars, edgeVars, idVars, jsVars>>

SpecCoverage == InitCoverage /\ [][Execute \/ CoverageRead]_vars

(***************************************************************************)
(* runner.rs: run_test's accumulation of state.coverage.edges_new          *)
(***************************************************************************)
\* The buckets a delta reports.
DeltaBuckets == {0, 1, 3, 8}

\* state.coverage.edges_new: at most one pair for an index.
Deltas ==
    UNION {[indices -> DeltaBuckets] : indices \in SUBSET EdgeIndices}

InitEdges ==
    /\ IdleEdges
    /\ origin = TestOrigin
    /\ IdleUrl
    /\ IdleRunner
    /\ IdleVerifier
    /\ IdleTwin
    /\ IdleTree
    /\ IdleCsp
    /\ IdleHeaders
    /\ IdlePipeline
    /\ IdleKeys
    /\ IdleLoad
    /\ IdleCoverage
    /\ IdleId
    /\ IdleJs

AccumulateEdges_overwrites(delta) ==
    /\ edges' = [i \in EdgeIndices |->
                    IF i \in DOMAIN delta THEN delta[i] ELSE edges[i]]
    /\ reported' = [i \in EdgeIndices |->
                       IF i \in DOMAIN delta
                       THEN reported[i] \cup {delta[i]}
                       ELSE reported[i]]
    /\ UNCHANGED <<urlVars, origin, runnerVars, verifierVars, verifiers,
                   treeVars, cspVars, headerVars, pipelineVars, keyVars,
                   loadVars, coverageVars, idVars, jsVars>>

\* for (index, bucket) in &state.coverage.edges_new {
\*     edges[index] = max(edges[index], bucket) }
AccumulateEdges(delta) ==
    /\ edges' = [i \in EdgeIndices |->
                    IF i \in DOMAIN delta THEN Max(edges[i], delta[i])
                    ELSE edges[i]]
    /\ reported' = [i \in EdgeIndices |->
                       IF i \in DOMAIN delta
                       THEN reported[i] \cup {delta[i]}
                       ELSE reported[i]]
    /\ UNCHANGED <<urlVars, origin, runnerVars, verifierVars, verifiers,
                   treeVars, cspVars, headerVars, pipelineVars, keyVars,
                   loadVars, coverageVars, idVars, jsVars>>

StateChangedCoverage == \E delta \in Deltas : AccumulateEdges(delta)

SpecEdges == InitEdges /\ [][StateChangedCoverage]_vars

(***************************************************************************)
(* instrumentation.rs: the source id intercept derives for a response      *)
(***************************************************************************)
\* SourceId::hash, an uninterpreted function of the text it is given.
SourceId_hash(text) == [hash |-> text]

\* fn source_id(headers: HashMap<String, String>, body: &str)
source_id(headers, body) ==
    IF "etag" \in DOMAIN headers
    THEN SourceId_hash(headers["etag"])
    ELSE SourceId_hash(body)

\* event.request.headers as a HashMap: a function from names to values.
RequestHeaderMaps ==
    { [accept |-> "*/*"],
      [accept |-> "*/*", etag |-> "W/0"],
      [accept |-> "*/*", ETag |-> "W/0"] }

\* event.response_headers
ResponseHeaderLists ==
    { None,
      Some(<<>>),
      Some(<<HeaderEntry("content-type", "text/javascript")>>),
      Some(<<HeaderEntry("etag", "W/1")>>),
      Some(<<HeaderEntry("ETag", "W/1")>>),
      Some(<<HeaderEntry("content-type", "text/javascript"),
             HeaderEntry("etag", "W/2")>>) }

\* The decoded bodies of the responses.
Bodies == {"let a = 1;", "let b = 2;", "W/1"}

InitId ==
    /\ id_event \in { Some([request_headers |-> q, response_headers |-> p]) :
                        q \in RequestHeaderMaps, p \in ResponseHeaderLists }
    /\ id_body \in Bodies
    /\ id_result = None
    /\ origin = TestOrigin
    /\ IdleUrl
    /\ IdleRunner
    /\ IdleVerifier
    /\ IdleTwin
    /\ IdleTree
    /\ IdleCsp
    /\ IdleHeaders
    /\ IdlePipeline
    /\ IdleKeys
    /\ IdleLoad
    /\ IdleCoverage
    /\ IdleEdges
    /\ IdleJs

\* intercept: headers = event.request.headers; source_id(headers, &body)
InterceptSourceId ==
    /\ id_result = None
    /\ id_result' = Some(source_id(id_event.some.request_headers, id_body))
    /\ UNCHANGED <<id_event, id_body>>
    /\ UNCHANGED <<urlVars, origin, runnerVars, verifierVars, verifiers,
                   treeVars, cspVars, headerVars, pipelineVars, keyVars,
                   loadVars, coverageVars, edgeVars, jsVars>>

SpecId == InitId /\ [][InterceptSourceId]_vars

(***************************************************************************)
(* js.rs: JsAction::to_browser_action on one action                        *)
(***************************************************************************)
\* The f64 values a specification hands over: the halves from -2 to 257,
\* NaN and the two infinities.
F64s ==
    {Finite(h) : h \in -4 .. 514} \cup {NaN, Infinity(1), Infinity(-1)}

JsActions ==
    {Back, Click, Reload}
    \cup {JsPressKey(code) : code \in F64s}
    \cup {JsTypeText(text, delay) : text \in {"", "hello"}, delay \in F64s}
    \cup {ScrollUp(<<0, 0>>, distance) : distance \in {Finite(5), NaN}}

InitJs ==
    /\ js_input \in {Some(a) : a \in JsActions}
    /\ js_result = None
    /\ origin = TestOrigin
    /\ IdleUrl
    /\ IdleRunner
    /\ IdleVerifier
    /\ IdleTwin
    /\ IdleTree
    /\ IdleCsp
    /\ IdleHeaders
    /\ IdlePipeline
    /\ IdleKeys
    /\ IdleLoad
    /\ IdleCoverage
    /\ IdleEdges
    /\ IdleId

\* js_action.to_browser_action()
ToBrowserAction ==
    /\ js_result = None
    /\ js_result' = Some(to_browser_action(js_input.some))
    /\ UNCHANGED js_input
    /\ UNCHANGED <<urlVars, origin, runnerVars, verifierVars, verifiers,
                   treeVars, cspVars, headerVars, pipelineVars, keyVars,
                   loadVars, coverageVars, edgeVars, idVars>>

SpecJs == InitJs /\ [][ToBrowserAction]_vars

(***************************************************************************)
(* Properties of the verifier, checked under SpecVerifier.                 *)
(***************************************************************************)
Stepped == n >= 1
Deadline == seen.t0.some + BoundMillis

\* C3: verdicts are sticky.  Once a step has returned True for a property,
\* the next step returns True for it; once it has returned False(witness),
\* the next step returns False with the same witness; in both cases the
\* Evaluator does not run for the property, whatever the snapshot is.
StickyVerdicts ==
    [][\A p \in DOMAIN step_result :
          /\ step_result[p].tag = "True" =>
                /\ step_result'[p] = True
                /\ p \notin evaluated'
          /\ step_result[p].tag = "False" =>
                /\ step_result'[p] = step_result[p]
                /\ p \notin evaluated']_vars

\* A False verdict found at an earlier time and a True verdict are still
\* returned for a snapshot that satisfies the one and falsifies the other.
StickyWitness ==
    /\ n >= 3
    /\ step_result["always"].tag = "False"
    /\ step_result["always"].violation.time < clock
    /\ seen.snapshot.some.foo
    /\ step_result["eventually"].tag = "True"
    /\ ~seen.snapshot.some.bar

\* C7: unbounded always(p).  As long as p has not failed before, a step at
\* which p holds yields Residual and the step at which p is false yields
\* False with an Always violation carrying a witness and the subformula.
AlwaysUnbounded ==
    (Stepped /\ ~seen.foo_false_before) =>
        LET v == step_result["always"]
        IN  IF seen.snapshot.some.foo
            THEN v.tag = "Residual" /\ v.residual.kind = "Always"
            ELSE /\ v.tag = "False"
                 /\ v.violation.kind = "Always"
                 /\ v.violation.subformula = "foo"
                 /\ v.violation.violation.time = clock

\* p held in the first 100 states and fails in the 101st.
AlwaysUnboundedWitness ==
    /\ n = 101
    /\ ~seen.foo_false_before
    /\ ~seen.snapshot.some.foo
    /\ step_result["always"].tag = "False"

\* C8: eventually(p).within(b) first evaluated at t0, with p never true:
\* a step with time <= t0 + b yields Residual, the first step with
\* time > t0 + b yields False, and every later step yields that same False.
EventuallyBounded ==
    (Stepped /\ ~seen.bar_true_ever) =>
        LET v == step_result["eventually_bounded"]
        IN  IF clock <= Deadline
            THEN v.tag = "Residual"
            ELSE /\ v.tag = "False"
                 /\ v.violation.kind = "Eventually"
                 /\ v.violation.time = seen.late.some

\* The bound has passed at an earlier step, and the verdict is still False.
EventuallyBoundedWitness ==
    /\ Stepped
    /\ ~seen.bar_true_ever
    /\ seen.late # None
    /\ clock > seen.late.some
    /\ step_result["eventually_bounded"].tag = "False"

\* C9: always(p).within(b) first evaluated at t0: if p did not fail at an
\* earlier step with time <= t0 + b, a step with time <= t0 + b at which p
\* holds yields Residual, and a step with time > t0 + b yields True, also
\* when p is false in that state.
AlwaysBounded ==
    (Stepped /\ ~seen.foo_false_within) =>
        LET v == step_result["always_bounded"]
        IN  /\ (clock <= Deadline /\ seen.snapshot.some.foo) =>
                  v.tag = "Residual"
            /\ clock > Deadline => v.tag = "True"

\* The first step after the bound, with p false in it, yields True.
AlwaysBoundedWitness ==
    /\ Stepped
    /\ ~seen.foo_false_within
    /\ seen.late = Some(clock)
    /\ ~seen.foo_false_before
    /\ ~seen.snapshot.some.foo
    /\ step_result["always_bounded"].tag = "True"

\* C10: unbounded eventually(p).  As long as p has not held before, a step
\* at which p is false yields Residual and the step at which p is true
\* yields True; no step yields False.
EventuallyUnbounded ==
    Stepped =>
        LET v == step_result["eventually"]
        IN  /\ v.tag # "False"
            /\ ~seen.bar_true_before =>
                  IF seen.snapshot.some.bar
                  THEN v.tag = "True"
                  ELSE v.tag = "Residual" /\ v.residual.kind = "Eventually"

\* p is false in the first states and true in a later one.
EventuallyUnboundedWitness ==
    /\ n >= 3
    /\ ~seen.bar_true_before
    /\ seen.snapshot.some.bar
    /\ step_result["eventually"].tag = "True"

\* C11: next(p) yields Residual at the step where it is first evaluated,
\* whatever p is in that state, and at the following step it yields the
\* value of p in that following state: True, or False found at that time.
NextDefersOneStep ==
    /\ n = 1 => /\ step_result["next"].tag = "Residual"
                /\ step_result["next"].residual.kind = "Next"
    /\ n = 2 => IF seen.snapshot.some.foo
                THEN step_result["next"] = True
                ELSE /\ step_result["next"].tag = "False"
                     /\ step_result["next"].violation.time = clock

\* p was false in the first state and true in the second: the second step
\* yields True.
NextDefersOneStepWitness ==
    /\ n = 2
    /\ seen.foo_false_before
    /\ seen.snapshot.some.foo
    /\ step_result["next"] = True

TotalWeight == IF IsLeaf(tree) THEN 1 ELSE SumWeights(tree.branches)

\* C13: weighted-tree pick soundness.  For a tree with total weight W > 0
\* pick returns Some(leaf) with leaf a leaf of the tree, and pick returns
\* None if and only if the tree has no leaves.
PickSoundness ==
    pick_result # None =>
        /\ TotalWeight > 0 =>
              /\ "some" \in DOMAIN pick_result.some
              /\ pick_result.some.some \in Leaves(tree)
        /\ (pick_result.some = None) <=> (Leaves(tree) = {})

\* C14: pruning is idempotent.  Pruning the result of prune(t) again gives
\* the same result, None staying None.
PruneIdempotent ==
    reprune_result # None => reprune_result.some = prune_result.some

\* A tree that lost branches in the first pruning was pruned a second time.
PruneIdempotentWitness ==
    /\ reprune_result # None
    /\ reprune_result.some # None
    /\ prune_result.some # tree
    /\ tree = TestPruneTree

\* What is left of t when exactly the branches without a leaf at any depth
\* are taken out, weights and order kept.
RECURSIVE WithoutLeaflessBranches(_)
WithoutLeaflessBranches(t) ==
    IF IsLeaf(t) THEN t
    ELSE LET has_leaf(b) == Leaves(b[2]) # {}
             kept == SelectSeq(t.branches, has_leaf)
         IN  Branch([i \in DOMAIN kept |->
                        <<kept[i][1], WithoutLeaflessBranches(kept[i][2])>>])

RECURSIVE HasEmptyBranch(_)
HasEmptyBranch(t) ==
    /\ ~IsLeaf(t)
    /\ \/ t.branches = <<>>
       \/ \E i \in DOMAIN t.branches : HasEmptyBranch(t.branches[i][2])

\* C15: prune(t) removes exactly the Branch nodes that contain no leaf at
\* any depth and keeps every other node with its weight, in its order; the
\* result contains no empty Branch and is None exactly when t has no leaves.
PruneRemovesLeafless ==
    prune_result # None =>
        /\ (prune_result.some = None) <=> (Leaves(tree) = {})
        /\ prune_result.some # None =>
              /\ prune_result.some = WithoutLeaflessBranches(tree)
              /\ ~HasEmptyBranch(prune_result.some)

\* test_prune_non_empty: the nested empty Branch and the empty Branch of the
\* root are gone, the rest is as it was.
PruneRemovesLeaflessWitness ==
    /\ tree = TestPruneTree
    /\ prune_result = Some(TestPruneExpected)

(***************************************************************************)
(* Properties of sanitize_csp, checked under SpecCsp.                      *)
(***************************************************************************)
\* The directives of the value under test and of the value returned.
Given == directives_of(csp_value.some)
Returned == sanitize_result.some.some

HashSources == {"'sha256-abc'", "'sha384-abc'", "'sha512-abc'"}
NonceSources == {"'nonce-abc'", "'Nonce-ABC'"}
StrictDynamic == "'strict-dynamic'"

DirectiveName(d) == to_lowercase(d.name)
Named(ds, names) ==
    LET named(d) == DirectiveName(d) \in names IN SelectSeq(ds, named)
NotNamed(ds, names) ==
    LET other(d) == DirectiveName(d) \notin names IN SelectSeq(ds, other)
HasSource(d, sources) == \E i \in DOMAIN d.values : d.values[i] \in sources
AnyHasSource(ds, sources) == \E i \in DOMAIN ds : HasSource(ds[i], sources)

ScriptNames == {"script-src", "script-src-elem"}
ReportNames == {"report-uri", "report-to"}

\* A directive with its white space normalised: one space between the name
\* and the values.
Normalised(ds) ==
    [i \in DOMAIN ds |->
        Directive(ds[i].name,
                  IF ds[i].values = <<>> THEN "none" ELSE "single",
                  ds[i].values)]

\* C16: stripping is stable under repetition.  When sanitize_csp(c) is
\* Some(s), sanitize_csp(s) is Some(s).
StrippingStable ==
    resanitize_result # None => resanitize_result.some = sanitize_result.some

NoHashNonceReport ==
    /\ ~AnyHasSource(Given, HashSources \cup NonceSources)
    /\ Named(Given, ReportNames) = <<>>

\* C17, as stated: for a CSP value with no hash source, no nonce source and
\* no report-uri / report-to directive, sanitize_csp returns Some of the
\* same directives with the same values, up to white space.
PurityAsStated ==
    (sanitize_result # None /\ NoHashNonceReport) =>
        /\ sanitize_result.some # None
        /\ Normalised(Returned) = Normalised(Given)

\* C17, amended: the same for a CSP value that has at least one directive,
\* that has no 'strict-dynamic' source either, and whose script-src,
\* script-src-elem and default-src directives each have a value.
PurityAmended ==
    ( /\ sanitize_result # None
      /\ NoHashNonceReport
      /\ Given # <<>>
      /\ ~AnyHasSource(Given, {StrictDynamic})
      /\ \A i \in DOMAIN Given :
            DirectiveName(Given[i]) \in ScriptNames \cup {"default-src"}
              => Given[i].values # <<>> ) =>
        /\ sanitize_result.some # None
        /\ Normalised(Returned) = Normalised(Given)

\* A script-src directive written with two spaces and under an upper-case
\* name comes back with one space, under the same name, after an empty
\* segment was dropped.
PurityAmendedWitness ==
    /\ sanitize_result # None
    /\ csp_value.some =
          <<EmptySegment, Directive("SCRIPT-SRC-ELEM", "double", <<"https:">>)>>
    /\ sanitize_result.some =
          Some(<<Directive("SCRIPT-SRC-ELEM", "single", <<"https:">>)>>)

\* C18: the hash and nonce sources and 'strict-dynamic' are removed from
\* every script-src and script-src-elem directive, and from default-src
\* only when the policy has neither; with an explicit script-src the
\* default-src directives are left as they are, and the values of all other
\* directives are never changed.
StripsScriptSources ==
    LET stripped == HashSources \cup NonceSources \cup {StrictDynamic}
        out == IF sanitize_result.some = None THEN <<>> ELSE Returned
        explicit == Named(Given, ScriptNames) # <<>>
    IN  sanitize_result # None =>
          /\ ~AnyHasSource(Named(out, ScriptNames), stripped)
          /\ IF explicit
             THEN Named(out, {"default-src"}) = Named(Given, {"default-src"})
             ELSE ~AnyHasSource(Named(out, {"default-src"}), stripped)
          /\ NotNamed(out, ScriptNames \cup {"default-src"})
                = NotNamed(NotNamed(Given, ReportNames),
                           ScriptNames \cup {"default-src"})

\* A directive the loop processes: script-src, script-src-elem, or the
\* default-src that stands in for them.
Processed(d) ==
    is_script_src(d) \/ is_default_src_fallback(d, has_script_src(Given))
AllRemoved(d) == \A i \in DOMAIN d.values : is_stripped_source(d.values[i])
Remains(d) ==
    /\ DirectiveName(d) \notin ReportNames
    /\ ~(Processed(d) /\ AllRemoved(d))

\* C19: every report-uri and report-to directive is dropped, a processed
\* directive whose values were all removed is omitted and never emitted
\* empty, and None is returned exactly when no directive remains.
DropsReportAndEmpty ==
    sanitize_result # None =>
        LET remains(d) == Remains(d)
            remaining == SelectSeq(Given, remains)
        IN  /\ (sanitize_result.some = None) <=> (remaining = <<>>)
            /\ sanitize_result.some # None =>
                  /\ Named(Returned, ReportNames) = <<>>
                  /\ Len(Returned) = Len(remaining)
                  /\ \A i \in DOMAIN Returned :
                        /\ DirectiveName(Returned[i])
                              = DirectiveName(remaining[i])
                        /\ Processed(remaining[i])
                              => Returned[i].values # <<>>

\* A report directive and a script-src whose sources were all removed: no
\* directive remains and None is returned.
DropsReportAndEmptyWitness ==
    /\ sanitize_result = Some(None)
    /\ Len(Given) = 2
    /\ Named(Given, ReportNames) # <<>>
    /\ \E i \in DOMAIN Given :
          Processed(Given[i]) /\ Given[i].values # <<>>

(***************************************************************************)
(* Properties of build_response_headers, checked under SpecHeaders.        *)
(***************************************************************************)
RECURSIVE DigitsValue(_)
DigitsValue(digits) ==
    IF digits = <<>> THEN 0
    ELSE 10 * DigitsValue(SubSeq(digits, 1, Len(digits) - 1))
           + digits[Len(digits)]

HeadersNamed(headers, names) ==
    LET named(h) == to_ascii_lowercase(h.name) \in names
    IN  SelectSeq(headers, named)

\* C20: header-policy closure.  Whatever the headers, the resource type and
\* the source id, the list returned has no header named content-length,
\* content-encoding, transfer-encoding or digest in any letter case, and
\* exactly one etag header, whose value is the decimal source id.
HeaderPolicyClosure ==
    built_headers # None =>
        LET etags == HeadersNamed(built_headers.some, {"etag"})
        IN  /\ HeadersNamed(built_headers.some,
                            STRIPPED_RESPONSE_HEADERS \ {"etag"}) = <<>>
            /\ Len(etags) = 1
            /\ "decimal" \in DOMAIN etags[1].value
            /\ DigitsValue(etags[1].value.decimal) = header_source_id

\* An upstream ETag and a Content-Length, both written with capitals, are
\* gone and the only header returned is the synthetic etag of a source id
\* of several digits.
HeaderPolicyClosureWitness ==
    /\ built_headers # None
    /\ response_headers # None
    /\ HeadersNamed(response_headers.some, {"etag"}) # <<>>
    /\ HeadersNamed(response_headers.some, {"content-length"}) # <<>>
    /\ \A i \in DOMAIN response_headers.some :
          response_headers.some[i].name \notin STRIPPED_RESPONSE_HEADERS
    /\ header_source_id = 1905
    /\ Len(built_headers.some) = 1

CspHeaderNames ==
    {"content-security-policy", "content-security-policy-report-only"}

\* The headers the call was given.
GivenHeaders ==
    IF response_headers = None THEN <<>> ELSE response_headers.some

\* The list returned without the etag appended at its end.
BuiltBeforeEtag ==
    SubSeq(built_headers.some, 1, Len(built_headers.some) - 1)

\* C21: content-type is preserved verbatim.  Every header given that is
\* neither one of the stripped headers nor a CSP header is in the list
\* returned with its name and value unchanged, in the order given, and no
\* other such header is.
PassesThroughVerbatim ==
    built_headers # None =>
        LET plain(h) ==
              to_ascii_lowercase(h.name)
                \notin STRIPPED_RESPONSE_HEADERS \cup CspHeaderNames
        IN  SelectSeq(BuiltBeforeEtag, plain) = SelectSeq(GivenHeaders, plain)

\* build_headers_preserves_content_type: a Script response's content-type
\* is returned as given, after a stripped header was removed before it.
PassesThroughVerbatimWitness ==
    /\ built_headers # None
    /\ resource_type = "Script"
    /\ GivenHeaders = <<HeaderEntry("Content-Length", Text("1234")),
                        HeaderEntry("content-type", Text("text/javascript"))>>
    /\ BuiltBeforeEtag =
          <<HeaderEntry("content-type", Text("text/javascript"))>>

\* What is to survive of the CSP headers of a Document response.
RECURSIVE SanitisedCspHeaders(_)
SanitisedCspHeaders(headers) ==
    IF headers = <<>> THEN <<>>
    ELSE LET h == Head(headers)
             v == sanitize_csp(h.value.csp)
         IN  (IF v = None THEN <<>> ELSE <<HeaderEntry(h.name, Csp(v.some))>>)
               \o SanitisedCspHeaders(Tail(headers))

\* C22: CSP resource routing.  For a Script response no CSP header, report-
\* only or not, is in the list returned; for a Document response each CSP
\* header is in it exactly when sanitize_csp of its value is not None, and
\* then under its own name with the sanitised value.
CspResourceRouting ==
    built_headers # None =>
        /\ resource_type = "Script" =>
              HeadersNamed(built_headers.some, CspHeaderNames) = <<>>
        /\ resource_type = "Document" =>
              HeadersNamed(built_headers.some, CspHeaderNames)
                = SanitisedCspHeaders(HeadersNamed(GivenHeaders, CspHeaderNames))

\* A Document response with two CSP headers: the one whose sanitisation is
\* empty is gone, the other carries its sanitised value under its name.
CspResourceRoutingWitness ==
    /\ built_headers # None
    /\ resource_type = "Document"
    /\ Len(HeadersNamed(GivenHeaders, CspHeaderNames)) = 2
    /\ Len(built_headers.some) = 2
    /\ built_headers.some[1].name = "Content-Security-Policy"
    /\ built_headers.some[1].value # GivenHeaders[1].value
    /\ built_headers.some[1].value # GivenHeaders[2].value

(***************************************************************************)
(* Properties of the interception loop, checked under SpecPipeline.        *)
(***************************************************************************)
Failed == intercept_result # None /\ ~IsOk(intercept_result.some)
Swallowed ==
    Failed /\ contains(intercept_result.some.err, "Invalid InterceptionId")

\* The commands executed for the event before the step that failed, that
\* step's own command included.
ExecutedUntilFailure ==
    LET first == Head(intercept_result.some.err)
        id == paused.some.request_id
    IN  CASE first = "failed continuing request" -> <<ContinueRequest(id)>>
          [] first = "invalid type" -> <<>>
          [] first = "failed fulfilling request" ->
               <<GetResponseBody(id), FulfillRequest(id)>>
          [] OTHER -> <<GetResponseBody(id)>>

HandledFailure ==
    Failed =>
        /\ Swallowed => commands = ExecutedUntilFailure
        /\ ~Swallowed =>
              commands = ExecutedUntilFailure
                           \o <<ContinueRequest(paused.some.request_id)>>

\* C23: when a step of handling a paused response fails (reading the
\* headers, fetching or decoding the body, instrumenting, fulfilling), the
\* loop then issues one ContinueRequest for the same request id and stays
\* in the loop for the events that follow; only a failure that carries
\* CDP's Invalid InterceptionId is followed by no command.
ContinuesAfterFailure ==
    [][taken' # taken => (listening' /\ HandledFailure')]_vars

\* The second event's FulfillRequest has failed with a CDP error other than
\* Invalid InterceptionId and its ContinueRequest was issued, and the loop
\* goes on.
ContinuesAfterFailureWitness ==
    /\ taken = 2
    /\ listening
    /\ Failed
    /\ ~Swallowed
    /\ commands = <<GetResponseBody(2), FulfillRequest(2), ContinueRequest(2)>>

\* C24: a paused response whose status is not 200 is continued unchanged:
\* the only command executed for it is ContinueRequest, neither a
\* GetResponseBody nor a FulfillRequest; a FulfillRequest is executed only
\* for a response whose status is 200.
Non200ContinuedUnchanged ==
    (paused # None /\ paused.some.response_status_code # Some(200)) =>
        /\ commands # <<>>
        /\ \A i \in 1 .. Len(commands) :
              commands[i] = ContinueRequest(paused.some.request_id)

(***************************************************************************)
(* Properties of key_info and of PressKey, checked under SpecKeys.         *)
(***************************************************************************)
DispatchedTypes == [i \in 1 .. Len(key_events) |-> key_events[i].type]

\* C28: applying PressKey{code} for a supported code dispatches exactly
\* rawKeyDown, then char only if the text of the key is not empty, then
\* keyUp, in this order; for a code outside the supported set apply fails
\* and no key event is dispatched.
PressKeyDispatch ==
    press_result # None =>
        IF key_code \in SUPPORTED_KEY_CODES
        THEN IsOk(press_result.some) =>
               DispatchedTypes =
                 IF key_info(key_code).some.text # ""
                 THEN <<"rawKeyDown", "char", "keyUp">>
                 ELSE <<"rawKeyDown", "keyUp">>
        ELSE ~IsOk(press_result.some) /\ key_events = <<>>

NameOfKey ==
    [code \in SUPPORTED_KEY_CODES |->
        CASE code = 8 -> "Backspace" [] code = 9 -> "Tab"
          [] code = 13 -> "Enter" [] code = 27 -> "Escape"
          [] code = 37 -> "ArrowLeft" [] code = 38 -> "ArrowUp"
          [] code = 39 -> "ArrowRight" [] code = 40 -> "ArrowDown"]

\* C29: key_info returns a record exactly for the codes of
\* SUPPORTED_KEY_CODES (8, 9, 13, 27, 37, 38, 39, 40) and None for every
\* other u8; the record's code and key are both the name of the key, and
\* its text is empty except for Enter (13), whose text is "\r".
KeyInfoTable ==
    key_info_result # None =>
        LET info == key_info_result.some
        IN  /\ (info # None) <=> (key_code \in SUPPORTED_KEY_CODES)
            /\ (info # None) <=> (key_code \in {8, 9, 13, 27, 37, 38, 39, 40})
            /\ info # None =>
                  /\ info.some.code = NameOfKey[key_code]
                  /\ info.some.key = NameOfKey[key_code]
                  /\ info.some.text = IF key_code = 13 THEN "\r" ELSE ""

\* key_info(13) has returned the record of Enter with its text.
KeyInfoTableWitness ==
    /\ key_code = 13
    /\ key_info_result = Some(Some(KeyInfo("Enter", "Enter", "\r")))

(***************************************************************************)
(* Properties of Verifier::new, checked under SpecLoad.                    *)
(***************************************************************************)
ExportsOf(class) ==
    {i \in DOMAIN specification_exports :
        specification_exports[i].instance_of = class}

ToStringTag == SymbolKey(Some("Symbol.toStringTag"))

UnknownExports ==
    {i \in ExportsOf("none") : specification_exports[i].key # ToStringTag}

\* C30: loading a specification registers every export that is a Formula
\* as a property whose state is Initial of the formula in negation normal
\* form and every export that is an ActionGenerator as a generator, passes
\* over the Symbol.toStringTag export, and returns an error when there is
\* any other export or when no action generator is exported.
LoadsExports ==
    loaded # None =>
        /\ (UnknownExports # {} \/ ExportsOf("ActionGenerator") = {}) =>
              ~IsOk(loaded.some)
        /\ ( /\ UnknownExports = {}
             /\ ExportsOf("ActionGenerator") # {}
             /\ \A i \in ExportsOf("Formula") :
                   IsOk(specification_exports[i].value.syntax)
             /\ \A i \in ExportsOf("ActionGenerator") :
                   specification_exports[i].value.generate = "function" ) =>
              IsOk(loaded.some)
        /\ IsOk(loaded.some) =>
              LET new == loaded.some.ok
              IN  /\ DOMAIN new.properties =
                        {specification_exports[i].key.string :
                            i \in ExportsOf("Formula")}
                  /\ \A i \in ExportsOf("Formula") :
                        LET written == specification_exports[i].value.syntax.ok
                            state ==
                              new.properties[specification_exports[i].key.string]
                        IN  /\ state.tag = "Initial"
                            /\ state.formula.op # "Not"
                            /\ written.op # "Not" => state.formula = written
                  /\ new.action_generators =
                        {specification_exports[i].key.string :
                            i \in ExportsOf("ActionGenerator")}

\* A specification with a negated formula, a generator and the module's
\* Symbol.toStringTag has been loaded: the property starts as the formula
\* with the negation pushed to its thunk.
LoadsExportsWitness ==
    /\ loaded # None
    /\ IsOk(loaded.some)
    /\ Len(specification_exports) = 3
    /\ \E i \in DOMAIN specification_exports :
          specification_exports[i].key = ToStringTag
    /\ DOMAIN loaded.some.ok.properties = {"never"}
    /\ loaded.some.ok.properties["never"] =
          Initial(Always(NegatedThunk("bar"), Some(BoundMillis)))
    /\ loaded.some.ok.action_generators = {"clicks"}

(***************************************************************************)
(* Properties of is_within_domain, checked under SpecUrl.                  *)
(***************************************************************************)
\* C2: a URL whose host or whose port differs from the origin's host or
\* port is classified as outside the origin.
DifferentHostOrPortIsOutside ==
    (within # None /\ (uri.host # origin.host \/ uri.port # origin.port)) =>
        within = Some(FALSE)

(***************************************************************************)
(* Properties of the runner, checked under Spec.                           *)
(***************************************************************************)
\* The handler of the last StateChanged got as far as collecting the
\* violations: the step and the conversion of its actions succeeded.
Collected == Len(ops) >= 2
RunEnded == pc \notin {"start", "loop"}

OneSnapshotAtATime ==
    /\ ops \in { <<>>, <<"step">>, <<"step", "try_map", "send">>,
                 <<"step", "try_map", "send", "apply">> }
    /\ (applied # None) <=> (Len(ops) = 4)
    /\ (emitted # None) <=> (Len(ops) >= 3)
    /\ applied # None => applied.some \in Leaves(cur.some.actions.ok)
    /\ (pc = "loop" /\ cur # None) => (applied # None /\ last_action = applied)

\* A second snapshot was handled to its apply after a first one.
OneSnapshotAtATimeWitness ==
    /\ n >= 2
    /\ pc = "loop"
    /\ applied # None
    /\ emitted.some.last_action # None

\* C25: an action failure returned from apply does not end the run.  When
\* the run has ended after the handler of the last snapshot handed an
\* action to browser.apply, it was ended by a later event (the shutdown
\* signal, a browser error, the browser closing), not by that apply.
ActionFailureContinues ==
    (applied # None /\ RunEnded) =>
        result \in {"Ok", "Err: state machine error", "Err: browser closed"}

\* C26: on the shutdown signal the runner stops ingesting snapshots.  Once
\* run_test has returned Ok, no further snapshot is handled, no NewState is
\* emitted and no action is applied, the result stays Ok, and it is sent
\* on the done channel only after browser.terminate was called.
ShutdownStopsIngesting ==
    [][result = "Ok" =>
         /\ UNCHANGED <<cur, ops, emitted, applied, last_action, verifierVars>>
         /\ result' = "Ok"
         /\ done' # None => (done' = Some("Ok") /\ terminated' >= 1)]_vars

\* The handler of the last snapshot dispatched an action and went back to
\* the loop; the shutdown branch then returned Ok, the browser was
\* terminated and the result delivered.
ShutdownStopsIngestingWitness ==
    /\ shutdown
    /\ applied # None
    /\ ops = <<"step", "try_map", "send", "apply">>
    /\ result = "Ok"
    /\ terminated = 1
    /\ done = Some("Ok")

AflBuckets == {0, 1, 2, 3, 4, 8, 16, 32, 128}

DeltaIsTheChange ==
    [][edges_new' # None =>
         /\ \A i \in EdgeIndices, b \in 0 .. 255 :
               (\E k \in DOMAIN edges_new'.some :
                    edges_new'.some[k] = <<i, b>>)
               <=> (b = bucket(edges_current[i]) /\ b # edges_previous[i])
         /\ Len(edges_new'.some) <= EdgeMapSize
         /\ edges_previous' = [i \in EdgeIndices |->
                                  bucket(edges_current[i])]
         /\ edges_current' = ZeroedMap]_vars

DeltaIsTheChangeWitness ==
    /\ edges_new # None
    /\ Len(edges_new.some) = 1
    /\ \A i \in EdgeIndices : edges_previous[i] # 0

\* The sum over the non-zero edges from index i on of +w or -w by bit b of
\* hash64, w being weights[bucket].
RECURSIVE SignedSum(_, _, _)
SignedSum(b, i, weights) ==
    IF i >= EdgeMapSize THEN 0
    ELSE (IF edges_previous[i] = 0 THEN 0
          ELSE IF Bit(hash64(i), b) = 1 THEN weights[edges_previous[i]]
          ELSE 0 - weights[edges_previous[i]])
         + SignedSum(b, i + 1, weights)

\* 1000 * log2(bucket) clamped to [1, 3], rounded to the nearest integer.
ClampedLog2 ==
    [a_bucket \in 1 .. 8 |->
        CASE a_bucket \in {1, 2} -> 1000
          [] a_bucket = 3 -> 1585
          [] a_bucket = 4 -> 2000
          [] a_bucket = 5 -> 2322
          [] a_bucket = 6 -> 2585
          [] a_bucket = 7 -> 2807
          [] a_bucket = 8 -> 3000]

\* floor(log2(bucket)) clamped to [1, 3].
ClampedFloorLog2 ==
    [a_bucket \in 1 .. 8 |->
        CASE a_bucket \in {1, 2, 3} -> 1
          [] a_bucket \in 4 .. 7 -> 2
          [] a_bucket = 8 -> 3]

HashBits == 0 .. 63

EdgesAreMaxima ==
    \A i \in EdgeIndices :
        /\ edges[i] \in reported[i] \cup {0}
        /\ \A a_bucket \in reported[i] : a_bucket <= edges[i]

EdgesAreMaximaWitness ==
    \E i \in EdgeIndices : reported[i] = {0, 3, 8} /\ edges[i] = 8


(***************************************************************************)
(* Properties of the source id, checked under SpecId.                      *)
(***************************************************************************)
\* The values of the etag headers of the upstream response, under any
\* letter case, in order.
UpstreamEtags ==
    IF id_event.some.response_headers = None THEN <<>>
    ELSE SelectSeq(id_event.some.response_headers.some,
                   LAMBDA h : to_ascii_lowercase(h.name) = "etag")

\* C34: the source id is the hash of the upstream response's ETag when the
\* response has an etag header under any letter case, and the hash of the
\* response body otherwise.
SourceIdFromEtag ==
    id_result # None =>
        id_result.some =
            IF UpstreamEtags # <<>>
            THEN SourceId_hash(UpstreamEtags[1].value)
            ELSE SourceId_hash(id_body)


(***************************************************************************)
(* Properties of JsAction::to_browser_action, checked under SpecJs.        *)
(***************************************************************************)
\* The whole number a finite non-negative f64 truncates to.
TowardZero(x) ==
    CHOOSE k \in 0 .. 300 : 2 * k <= x.halves /\ x.halves < 2 * k + 2

IsNegative(x) ==
    ("halves" \in DOMAIN x /\ x.halves < 0)
    \/ ("inf" \in DOMAIN x /\ x.inf < 0)

IsU8(x) == x \in {Finite(2 * k) : k \in 0 .. 255}

\* C35: the conversion fails for a TypeText whose delayMillis is negative,
\* NaN or infinite and for a PressKey whose code is not an integer in
\* 0..=255; every other action converts, a fractional delayMillis
\* truncated toward zero and all else as it was.
ConversionValidates ==
    js_result # None =>
        LET a == js_input.some
            r == js_result.some
        IN  CASE a.type = "TypeText" ->
                   IF a.delay_millis = NaN
                      \/ "inf" \in DOMAIN a.delay_millis
                      \/ IsNegative(a.delay_millis)
                   THEN ~IsOk(r)
                   ELSE r = Ok([type |-> "TypeText", text |-> a.text,
                                delay_millis |-> TowardZero(a.delay_millis)])
              [] a.type = "PressKey" ->
                   IF ~IsU8(a.code)
                   THEN ~IsOk(r)
                   ELSE r = Ok([type |-> "PressKey",
                                code |-> TowardZero(a.code)])
              [] OTHER -> r = Ok(a)

ConversionValidatesWitness ==
    /\ js_result # None
    /\ js_input = Some(JsPressKey(Finite(27)))
    /\ ~IsOk(js_result.some)


(***************************************************************************)
(* Properties of the task Runner::start spawns, checked under Spec.        *)
(***************************************************************************)
\* C37: once the run has ended with a result (Ok, an error, or a failed
\* initiate) the task calls browser.terminate, once, before anything else;
\* the result is sent on the done channel only after that call, and it is
\* the result of the run.
TerminateThenSend ==
    /\ terminated <= 1
    /\ terminated = 1 => result # "none"
    /\ pc \in {"send", "finished"} => terminated = 1
    /\ (result # "none" /\ pc # "terminate") => terminated = 1
    /\ done # None => (terminated = 1 /\ done = Some(result))

TerminateThenSendWitness ==
    /\ done = Some("Err: initiate")
    /\ terminated = 1

\* C38: the last_action of a NewState is the action the handler of the
\* snapshot before handed to browser.apply, and None for the first
\* snapshot.
LastActionIsApplied ==
    [][(n' = n + 1 /\ emitted' # None) =>
          /\ emitted'.some.last_action = applied
          /\ n = 0 => emitted'.some.last_action = None]_vars

LastActionIsAppliedWitness ==
    /\ n >= 3
    /\ emitted # None
    /\ emitted.some.last_action = Some(Click)
    /\ applied = Some(Back)


(***************************************************************************)
(* Properties of pick on heavy branches, checked under SpecPickWide.       *)
(***************************************************************************)
\* C39: for a branch whose weights sum to more than zero, also to more
\* than 65535, pick does not panic, and it can return a leaf of every
\* child that has a positive weight and a leaf.
PickSumIsExact ==
    (tree # None /\ ~IsLeaf(tree) /\ SumWeights(tree.branches) > 0) =>
        /\ pick_result # None => pick_result.some # Panic
        /\ \A i \in DOMAIN tree.branches :
              (tree.branches[i][1] > 0 /\ Leaves(tree.branches[i][2]) # {})
              => \E a \in Leaves(tree.branches[i][2]) : Some(a) \in pick(tree)


(***************************************************************************)
(* Properties of RunEvents::shutdown, checked under FairSpec.              *)
(***************************************************************************)
\* C40: once RunEvents::shutdown has sent its signal, the done channel
\* eventually holds the result of the run, whatever the runner task was
\* doing when the signal came.
ShutdownReturnsResult == shutdown ~> (done # None /\ done = Some(result))

====
